---- MODULE Spec2Model ----
(***************************************************************************)
(* FAT32 driver of GC9A01-XIAO-RP2040-Cpp (src/FAT32.cpp) as a state       *)
(* machine over a small volume.                                            *)
(*                                                                         *)
(* Scaling.  One "unit" is a 32-byte block: a directory slot               *)
(* (root_Entries) or 32 bytes of file data.  A sector holds SectorSize     *)
(* units (16 on the device), a cluster ClusterSize sectors.  File sizes    *)
(* and transfer counts are counted in units.  A data unit written by the   *)
(* caller is the block whose first byte is the data byte and whose other   *)
(* 31 bytes are zero, so data and directory slots share one type and a     *)
(* sector can be read either way, as on the device.                        *)
(* Bytes are integers (ASCII codes); names are sequences of bytes.         *)
(***************************************************************************)
EXTENDS Integers, Sequences, FiniteSets, TLC

VARIABLES
    fat,                  \* first FAT copy: entry number -> [hi, lo]
    disk,                 \* data region: LBA -> sector (sequence of units)
    read_handler,         \* FAT32::read_handler
    write_handler,        \* FAT32::write_handler
    ext_handler,          \* a ReadHandler object owned by the caller
    current_dir_cluster_, \* FAT32::current_dir_cluster_
    mounted,              \* the geometry members of the FAT32 object
    fat_cache,            \* FAT32::fat_cache, fat_cache_sector, fat_cache_valid
    lfn,                  \* fat_filename_parser's lfn_index and the scan calling it
    sd,                   \* the SDCard object under the file system
    card,                 \* the card in the slot
    last,                 \* observation: the last operation and its result
    sess                  \* observation: the caller's create/write/read session

vars == <<fat, disk, read_handler, write_handler, ext_handler,
          current_dir_cluster_, mounted, fat_cache, lfn, sd, card, last,
          sess>>

----------------------------------------------------------------------------
(* Bounds of the model *)

SectorSize == 2            \* units per sector
ClusterSize == 1           \* sectors per cluster (cluster_size)
TotalClusters == 5         \* data_sectors / cluster_size
FatEntriesPerSector == 4   \* FAT entries per FAT sector
MaxFileSize == 6           \* cap on write_handler.File_Size, in units
MaxOps == 3                \* calls made by the caller in one run
MaxSessionOps == 8         \* calls of one create/write/read session
MaxStaleOps == 6           \* calls of the caller that writes after a delete
MaxCardOps == 3            \* calls of the caller of the block driver
MaxPartialOps == 4         \* calls of the caller of the partial reads
MaxFormatOps == 4          \* calls of the caller that formats and mounts
MaxCacheOps == 2           \* calls of the caller of fat_entry
MaxLfnCalls == 2           \* directory scans over LFN fragments

(* Program constants *)

SECTOR_SIZE == SectorSize
FILE_CLEAR == 0
FILE_ERASED == 229
AT_VOLUME_ID == 8
AT_DIRECTORY == 16
AT_ARCHIVE == 32
AT_LFN == 15
MAX_LFN_CHARACTERS == 255
LFN_CHAR_POSITIONS == <<1, 3, 5, 7, 9, 14, 16, 18, 20, 22, 24, 28, 30>>
CLUSTER_FREE == 0
EOC_MIN == 268435448
EOC_MAX == 268435455
\* stands for the uint32 value 0xFFFFFFFF, which is beyond TLC's integers;
\* the code only compares it with 0, 2 and EOC_MIN
INVALID_CLUSTER == 2147483647
partition_start == 2048
reserved_sectors == 32
num_fats == 2
root_dir_first_cluster == 2

Min(a, b) == IF a < b THEN a ELSE b

----------------------------------------------------------------------------
(* Geometry, as read_master_block derives it from the BPB *)

\* FAT size written by format_fat32: enough sectors for clusters + 2 entries
sectors_per_fat ==
    ((TotalClusters + 2) + FatEntriesPerSector - 1) \div FatEntriesPerSector
FatEntries == sectors_per_fat * FatEntriesPerSector
cluster_size == ClusterSize
sector_size == SECTOR_SIZE
main_offset == partition_start % 65536
fat_base == (main_offset + reserved_sectors) % 65536
first_data_sector == reserved_sectors + num_fats * sectors_per_fat
data_base == (main_offset + first_data_sector) % 65536
last_cluster == (TotalClusters + 1) % 65536

\* LBA of sector sec of a data cluster
ClusterLba(cluster, sec) == data_base + ((cluster - 2) * cluster_size) + sec
DataLbas == data_base .. (data_base + TotalClusters * cluster_size - 1)

----------------------------------------------------------------------------
(* Units, sectors, directory entries *)

ZeroName == [i \in 1..11 |-> 0]
ZeroUnit == [name |-> ZeroName, attr |-> 0, fc |-> 0, size |-> 0]
ZeroSector == [i \in 1..SectorSize |-> ZeroUnit]
\* 32 bytes of file data: first byte b, the rest zero
DataUnit(b) == [name |-> [i \in 1..11 |-> IF i = 1 THEN b ELSE 0],
                attr |-> 0, fc |-> 0, size |-> 0]

\* get_physical_block / store_physical_block on the data region
get_physical_block(d, lba) == IF lba \in DOMAIN d THEN d[lba] ELSE ZeroSector
store_physical_block(d, lba, sector) ==
    IF lba \in DOMAIN d THEN [d EXCEPT ![lba] = sector] ELSE d

HasAttr(e, bit) == (e.attr \div bit) % 2 = 1
FirstCluster(e) == e.fc

----------------------------------------------------------------------------
(* FAT_Utils *)

toupper(c) == IF c >= 97 /\ c <= 122 THEN c - 32 ELSE c

\* "\"*/:<>?\\|+,. ;=[]"
InvalidChars == {34, 42, 47, 58, 60, 62, 63, 92, 124, 43, 44, 46, 32, 59, 61, 91, 93}

RECURSIVE CopyField(_, _, _, _)
\* the two copy loops of to_dos_8_3: skip spaces, refuse invalid characters,
\* upper-case, stop after max characters
CopyField(s, i, acc, max) ==
    IF i > Len(s) \/ Len(acc) >= max THEN [ok |-> TRUE, out |-> acc]
    ELSE IF s[i] = 32 THEN CopyField(s, i + 1, acc, max)
    ELSE IF s[i] \in InvalidChars THEN [ok |-> FALSE, out |-> acc]
    ELSE CopyField(s, i + 1, Append(acc, toupper(s[i])), max)

\* strchr(name, '.'): index of the first dot, 0 if none
DotPos(s) ==
    IF \E i \in 1..Len(s) : s[i] = 46
    THEN CHOOSE i \in 1..Len(s) : s[i] = 46 /\ \A j \in 1..(i - 1) : s[j] # 46
    ELSE 0

PadSpaces(s, n) == [i \in 1..n |-> IF i <= Len(s) THEN s[i] ELSE 32]

to_dos_8_3(name) ==
    LET dot == DotPos(name)
        Join(b, e) ==
            IF b.ok /\ e.ok
            THEN [ok |-> TRUE, out11 |-> PadSpaces(b.out, 8) \o PadSpaces(e.out, 3)]
            ELSE [ok |-> FALSE, out11 |-> <<>>]
    IN  Join(CopyField(IF dot = 0 THEN name ELSE SubSeq(name, 1, dot - 1), 1, <<>>, 8),
             CopyField(IF dot = 0 THEN <<>> ELSE SubSeq(name, dot + 1, Len(name)),
                       1, <<>>, 3))

iequals(a, b) ==
    /\ Len(a) = Len(b)
    /\ \A i \in 1..Len(a) : toupper(a[i]) = toupper(b[i])

\* prefix of s before the first byte equal to stop
Until(s, stop) ==
    IF \E i \in 1..Len(s) : s[i] = stop
    THEN SubSeq(s, 1, (CHOOSE i \in 1..Len(s) :
                          s[i] = stop /\ \A j \in 1..(i - 1) : s[j] # stop) - 1)
    ELSE s

\* a char buffer read as a C string
CStr(s) == Until(s, 0)

\* the name a directory slot is compared under: base, and for files
\* '.' + extension when the extension is not blank
DosName(e, withExt) ==
    CStr(Until(SubSeq(e.name, 1, 8), 32)
         \o (IF withExt /\ e.name[9] # 32
             THEN <<46>> \o Until(SubSeq(e.name, 9, 11), 32)
             ELSE <<>>))

RECURSIVE Tokens(_, _, _, _)
\* strtok_r(s, sep): the non-empty pieces between separators
Tokens(s, i, cur, sep) ==
    IF i > Len(s) THEN (IF cur = <<>> THEN <<>> ELSE <<cur>>)
    ELSE IF s[i] = sep
         THEN (IF cur = <<>> THEN <<>> ELSE <<cur>>) \o Tokens(s, i + 1, <<>>, sep)
         ELSE Tokens(s, i + 1, Append(cur, s[i]), sep)

----------------------------------------------------------------------------
(* FAT table *)

\* fat_entry(cluster_num, 0, false)
fat_entry_read(f, cluster_num) ==
    IF cluster_num < 2 \/ cluster_num \notin DOMAIN f THEN INVALID_CLUSTER
    ELSE f[cluster_num].lo

\* fat_entry(cluster_num, fat_value, true): the table after the write
fat_entry_write(f, cluster_num, fat_value) ==
    IF cluster_num < 2 \/ cluster_num \notin DOMAIN f THEN f
    ELSE [f EXCEPT ![cluster_num] = [hi |-> @.hi, lo |-> fat_value % 268435456]]

\* the FAT sector cache after the constructor
FatCache ==
    [valid |-> FALSE, sector |-> INVALID_CLUSTER,
     data |-> [i \in 0..(FatEntriesPerSector - 1) |-> [hi |-> 0, lo |-> 0]]]

\* fat_entry without the invalidation of the cache after a store that fails
fat_entry_KeepsValid(f, fc, cluster_num, fat_value, write_entry, rd, wr, stored) ==
    LET fat_lba == fat_base + (cluster_num \div FatEntriesPerSector)
        entry_offset == cluster_num % FatEntriesPerSector
        Block(l) ==
            [i \in 0..(FatEntriesPerSector - 1) |->
                f[(l - fat_base) * FatEntriesPerSector + i]]
        Store(l, data) ==
            [c \in DOMAIN f |->
                IF c \div FatEntriesPerSector = l - fat_base
                THEN data[c % FatEntriesPerSector] ELSE f[c]]
        Hit == fc.valid /\ fc.sector = fat_lba
        Loaded == IF Hit THEN fc
                  ELSE [valid |-> TRUE, sector |-> fat_lba, data |-> Block(fat_lba)]
        Masked(c) ==
            [c EXCEPT !.data[entry_offset] =
                          [hi |-> @.hi, lo |-> fat_value % 268435456]]
        Write(c) ==
            IF ~wr
            THEN [ret |-> INVALID_CLUSTER,
                  fat |-> IF stored THEN Store(fat_lba, c.data) ELSE f,
                  cache |-> c, io |-> "write fails"]
            ELSE [ret |-> c.data[entry_offset].lo,
                  fat |-> Store(fat_lba, c.data), cache |-> c, io |-> "ok"]
    IN  IF cluster_num < 2
        THEN [ret |-> INVALID_CLUSTER, fat |-> f, cache |-> fc, io |-> "none"]
        ELSE IF ~Hit /\ ~rd
        THEN [ret |-> INVALID_CLUSTER, fat |-> f,
              cache |-> [fc EXCEPT !.valid = FALSE], io |-> "read fails"]
        ELSE IF write_entry THEN Write(Masked(Loaded))
        ELSE [ret |-> Loaded.data[entry_offset].lo, fat |-> f, cache |-> Loaded,
              io |-> IF Hit THEN "none" ELSE "ok"]

\* fat_entry that stores all 32 bits of fat_value
fat_entry_DropsTop(f, fc, cluster_num, fat_value, write_entry, rd, wr, stored) ==
    LET fat_lba == fat_base + (cluster_num \div FatEntriesPerSector)
        entry_offset == cluster_num % FatEntriesPerSector
        Block(l) ==
            [i \in 0..(FatEntriesPerSector - 1) |->
                f[(l - fat_base) * FatEntriesPerSector + i]]
        Store(l, data) ==
            [c \in DOMAIN f |->
                IF c \div FatEntriesPerSector = l - fat_base
                THEN data[c % FatEntriesPerSector] ELSE f[c]]
        Hit == fc.valid /\ fc.sector = fat_lba
        Loaded == IF Hit THEN fc
                  ELSE [valid |-> TRUE, sector |-> fat_lba, data |-> Block(fat_lba)]
        Masked(c) ==
            [c EXCEPT !.data[entry_offset] =
                          [hi |-> (fat_value \div 268435456) % 16,
                           lo |-> fat_value % 268435456]]
        Write(c) ==
            IF ~wr
            THEN [ret |-> INVALID_CLUSTER,
                  fat |-> IF stored THEN Store(fat_lba, c.data) ELSE f,
                  cache |-> [c EXCEPT !.valid = FALSE], io |-> "write fails"]
            ELSE [ret |-> c.data[entry_offset].lo,
                  fat |-> Store(fat_lba, c.data), cache |-> c, io |-> "ok"]
    IN  IF cluster_num < 2
        THEN [ret |-> INVALID_CLUSTER, fat |-> f, cache |-> fc, io |-> "none"]
        ELSE IF ~Hit /\ ~rd
        THEN [ret |-> INVALID_CLUSTER, fat |-> f,
              cache |-> [fc EXCEPT !.valid = FALSE], io |-> "read fails"]
        ELSE IF write_entry THEN Write(Masked(Loaded))
        ELSE [ret |-> Loaded.data[entry_offset].lo, fat |-> f, cache |-> Loaded,
              io |-> IF Hit THEN "none" ELSE "ok"]

\* fat_entry(cluster_num, fat_value, write_entry) of a mounted volume, with
\* its sector cache fc over the table f of the card.  rd and wr tell whether
\* get_physical_block and store_physical_block succeed, stored whether the
\* card has kept the block of a store (it has when the store succeeds).
\* hi holds the top 4 bits of an entry and lo its low 28 bits; io tells what
\* the block calls of the call did
fat_entry(f, fc, cluster_num, fat_value, write_entry, rd, wr, stored) ==
    LET fat_lba == fat_base + (cluster_num \div FatEntriesPerSector)
        entry_offset == cluster_num % FatEntriesPerSector
        Block(l) ==
            [i \in 0..(FatEntriesPerSector - 1) |->
                f[(l - fat_base) * FatEntriesPerSector + i]]
        Store(l, data) ==
            [c \in DOMAIN f |->
                IF c \div FatEntriesPerSector = l - fat_base
                THEN data[c % FatEntriesPerSector] ELSE f[c]]
        Hit == fc.valid /\ fc.sector = fat_lba
        Loaded == IF Hit THEN fc
                  ELSE [valid |-> TRUE, sector |-> fat_lba, data |-> Block(fat_lba)]
        Masked(c) ==
            [c EXCEPT !.data[entry_offset] =
                          [hi |-> @.hi, lo |-> fat_value % 268435456]]
        Write(c) ==
            IF ~wr
            THEN [ret |-> INVALID_CLUSTER,
                  fat |-> IF stored THEN Store(fat_lba, c.data) ELSE f,
                  cache |-> [c EXCEPT !.valid = FALSE], io |-> "write fails"]
            ELSE [ret |-> c.data[entry_offset].lo,
                  fat |-> Store(fat_lba, c.data), cache |-> c, io |-> "ok"]
    IN  IF cluster_num < 2
        THEN [ret |-> INVALID_CLUSTER, fat |-> f, cache |-> fc, io |-> "none"]
        ELSE IF ~Hit /\ ~rd
        THEN [ret |-> INVALID_CLUSTER, fat |-> f,
              cache |-> [fc EXCEPT !.valid = FALSE], io |-> "read fails"]
        ELSE IF write_entry THEN Write(Masked(Loaded))
        ELSE [ret |-> Loaded.data[entry_offset].lo, fat |-> f, cache |-> Loaded,
              io |-> IF Hit THEN "none" ELSE "ok"]

\* first FREE cluster in lo..hi-1, 0 if none
FirstFree(f, lo, hi) ==
    IF \E c \in lo..(hi - 1) : fat_entry_read(f, c) = CLUSTER_FREE
    THEN CHOOSE c \in lo..(hi - 1) :
            /\ fat_entry_read(f, c) = CLUSTER_FREE
            /\ \A b \in lo..(c - 1) : fat_entry_read(f, b) # CLUSTER_FREE
    ELSE 0

fat_search_available_cluster(f, current_cluster) ==
    LET cur16 == current_cluster % 65536
        start == IF cur16 >= 2 THEN cur16 ELSE 2
        Wrap(up) == IF up # 0 THEN up % 65536 ELSE FirstFree(f, 2, start) % 65536
    IN  Wrap(FirstFree(f, start, last_cluster))

\* more steps than any chain without a cycle can take
Fuel == FatEntries + 1

RECURSIVE ChainFrom(_, _, _)
\* the clusters a directory walk visits from cluster c: it stops on a
\* next value that is 0 or an end-of-chain marker, or on a cluster < 2
ChainFrom(f, c, fuel) ==
    IF fuel = 0 \/ c < 2 \/ c >= EOC_MIN THEN <<>>
    ELSE LET next == fat_entry_read(f, c)
         IN  <<c>> \o (IF next >= EOC_MIN \/ next = 0 THEN <<>>
                       ELSE ChainFrom(f, next, fuel - 1))

\* a loop that frees the first cluster only
FreeChain_Mutant(f, c) ==
    IF c >= 2 /\ c < EOC_MIN THEN fat_entry_write(f, c, CLUSTER_FREE) ELSE f

RECURSIVE FreeChain(_, _)
\* the loop that frees a file's chain (DELETE, OVERWRITE, CREATE on existing)
FreeChain(f, c) ==
    IF c >= 2 /\ c < EOC_MIN
    THEN FreeChain(fat_entry_write(f, c, CLUSTER_FREE), fat_entry_read(f, c))
    ELSE f

\* the loop that zeroes every sector of a newly allocated cluster
ZeroCluster(d, c) ==
    [lba \in DOMAIN d |->
        IF \E s \in 0..(cluster_size - 1) : lba = ClusterLba(c, s)
        THEN ZeroSector ELSE d[lba]]

----------------------------------------------------------------------------
(* Handles *)

ReadHandler == [Dir_Entry |-> 0, File_Size |-> 0, FAT_Entry |-> 0, SectorOffset |-> 0]
WriteHandler == [Dir_Entry |-> 0, File_Size |-> 0, BaseFatEntry |-> 0,
                 CurrentFatEntry |-> 0, ClusterIndex |-> 0, SectorIndex |-> 0]

\* the write handle every branch of file_open sets up
OpenWriteHandler(lba, size, first_cluster) ==
    [Dir_Entry |-> lba, File_Size |-> size, BaseFatEntry |-> first_cluster,
     CurrentFatEntry |-> first_cluster, ClusterIndex |-> 0, SectorIndex |-> 0]

----------------------------------------------------------------------------
(* Directory scanning *)

RECURSIVE Flatten(_)
Flatten(ss) == IF ss = <<>> THEN <<>> ELSE Head(ss) \o Flatten(Tail(ss))

\* index of the first TRUE of a sequence of booleans, 0 if none: the entry
\* at which a scan loop stops
FirstWhere(hits) ==
    IF \E k \in 1..Len(hits) : hits[k]
    THEN CHOOSE k \in 1..Len(hits) : hits[k] /\ \A j \in 1..(k - 1) : ~hits[j]
    ELSE 0

\* the slots of one cluster in scan order: sector by sector, entry by entry
ClusterSlots(c) ==
    [k \in 1..(cluster_size * SectorSize) |->
        [c |-> c, s |-> (k - 1) \div SectorSize, i |-> ((k - 1) % SectorSize) + 1]]

\* the slots a scan of the directory starting at cluster dc visits, in order
DirSlots(f, dc) ==
    LET SlotsOf(chain) == Flatten([n \in 1..Len(chain) |-> ClusterSlots(chain[n])])
    IN  SlotsOf(ChainFrom(f, dc, Fuel))

SlotLba(p) == ClusterLba(p.c, p.s)
SlotAt(d, p) == get_physical_block(d, SlotLba(p))[p.i]

\* the entry loop of one sector stops at the first FILE_CLEAR slot; the
\* scan then goes on with the next sector
BeforeClear(d, p) ==
    \A j \in 1..p.i : get_physical_block(d, SlotLba(p))[j].name[1] # FILE_CLEAR

ValidCluster(c) == c >= 2 /\ c < EOC_MIN

fat_filename_parser(e) ==
    IF e.name[1] # FILE_CLEAR
       /\ e.name[1] # FILE_ERASED /\ ~HasAttr(e, AT_VOLUME_ID)
    THEN IF e.attr = AT_LFN THEN "_LongFileName"
         ELSE IF HasAttr(e, AT_DIRECTORY) THEN "_Directory" ELSE "_File"
    ELSE "_Error"

\* file_open: the slot is reached by the scan and its name equals the component
NameMatch(d, p, name) ==
    LET e == SlotAt(d, p)
        type == fat_filename_parser(e)
    IN  /\ BeforeClear(d, p)
        /\ e.name[1] # FILE_ERASED
        /\ type \in {"_File", "_Directory"}
        /\ iequals(DosName(e, type = "_File"), name)

RECURSIVE WalkPath(_, _, _, _, _)
\* file_open: descend through every component but the last; the result is
\* the cluster of the directory holding the last component, 0 when an
\* intermediate directory is not found
WalkPath(f, d, dir_cluster, parts, idx) ==
    IF idx >= Len(parts) THEN dir_cluster
    ELSE LET Descend(p) == /\ NameMatch(d, p, parts[idx])
                           /\ HasAttr(SlotAt(d, p), AT_DIRECTORY)
                           /\ ValidCluster(FirstCluster(SlotAt(d, p)))
             Step(slots, k) ==
                IF k = 0 THEN 0
                ELSE WalkPath(f, d, FirstCluster(SlotAt(d, slots[k])), parts, idx + 1)
             Scan(slots) ==
                Step(slots, FirstWhere([z \in 1..Len(slots) |-> Descend(slots[z])]))
         IN  Scan(DirSlots(f, dir_cluster))

\* a fresh directory entry as file_open (attr = AT_ARCHIVE) and
\* create_directory (attr = AT_DIRECTORY) build it after memset
NewEntry(dos11, attr, first_cluster) ==
    [name |-> dos11, attr |-> attr, fc |-> first_cluster, size |-> 0]

SetSlot(d, p, e) ==
    store_physical_block(d, SlotLba(p),
        [get_physical_block(d, SlotLba(p)) EXCEPT ![p.i] = e])

OpenResult(res, f, d, rh, wh) ==
    [res |-> res, fat |-> f, disk |-> d, rh |-> rh, wh |-> wh]

\* file_open, last component found at slot p
OpenFound(f, d, rh, wh, p, function) ==
    LET e == SlotAt(d, p)
        first_cluster == FirstCluster(e)
        lba == SlotLba(p)
        truncated == [e EXCEPT !.fc = 0, !.size = 0]
    IN  IF HasAttr(e, AT_DIRECTORY) THEN OpenResult("FILE_NOT_FOUND", f, d, rh, wh)
        ELSE CASE function = "READ" ->
                    OpenResult("FILE_FOUND", f, d,
                        [Dir_Entry |-> 0, File_Size |-> e.size,
                         FAT_Entry |-> first_cluster, SectorOffset |-> 0], wh)
               [] function = "DELETE" ->
                    OpenResult("FILE_FOUND", FreeChain(f, first_cluster),
                        SetSlot(d, p, [e EXCEPT !.name[1] = FILE_ERASED]), rh, wh)
               [] function = "OVERWRITE" ->
                    OpenResult("FILE_FOUND", FreeChain(f, first_cluster),
                        SetSlot(d, p, truncated), rh, OpenWriteHandler(lba, 0, 0))
               [] function = "MODIFY" ->
                    OpenResult("FILE_FOUND", f, d, rh,
                        OpenWriteHandler(lba, e.size, first_cluster))
               [] function = "CREATE" ->
                    OpenResult("FILE_CREATE_OK", FreeChain(f, first_cluster),
                        SetSlot(d, p, truncated), rh, OpenWriteHandler(lba, 0, 0))

\* a slot search that only takes the end-of-directory marker
UsableSlot_Mutant(e) == e.name[1] = FILE_CLEAR

\* the test of the slot search of file_open: a free or an erased slot
UsableSlot(e) == e.name[1] \in {FILE_CLEAR, FILE_ERASED}

\* file_open, last component not found: CREATE and OVERWRITE add an entry
OpenMissing(f, d, rh, wh, dir_cluster, name, function) ==
    IF function \in {"READ", "DELETE", "MODIFY"}
    THEN OpenResult("FILE_NOT_FOUND", f, d, rh, wh)
    ELSE
    LET Usable(p) == UsableSlot(SlotAt(d, p))
        \* no usable slot: a new cluster is linked after lastc
        Extend(dos, chain, lastc, next, freec) ==
            IF Len(chain) = Fuel \/ ~(next >= EOC_MIN \/ next = 0)
            THEN OpenResult("FILE_NOT_FOUND", f, d, rh, wh)
            ELSE IF freec < 2 THEN OpenResult("NO_MORE_FREE_CLUSTER", f, d, rh, wh)
            ELSE OpenResult("FILE_CREATE_OK",
                     fat_entry_write(fat_entry_write(f, lastc, freec), freec, EOC_MIN),
                     SetSlot(ZeroCluster(d, freec), [c |-> freec, s |-> 0, i |-> 1],
                             NewEntry(dos.out11, AT_ARCHIVE, 0)),
                     rh, OpenWriteHandler(SlotLba([c |-> freec, s |-> 0, i |-> 1]), 0, 0))
        Place(dos, chain, slots, k) ==
            IF ~dos.ok \/ chain = <<>> THEN OpenResult("FILE_NOT_FOUND", f, d, rh, wh)
            ELSE IF k # 0
            THEN OpenResult("FILE_CREATE_OK", f,
                     SetSlot(d, slots[k], NewEntry(dos.out11, AT_ARCHIVE, 0)),
                     rh, OpenWriteHandler(SlotLba(slots[k]), 0, 0))
            ELSE Extend(dos, chain, chain[Len(chain)],
                        fat_entry_read(f, chain[Len(chain)]),
                        fat_search_available_cluster(f, chain[Len(chain)]))
        Scan(dos, chain, slots) ==
            Place(dos, chain, slots,
                  FirstWhere([z \in 1..Len(slots) |-> Usable(slots[z])]))
    IN  Scan(to_dos_8_3(name), ChainFrom(f, dir_cluster, Fuel), DirSlots(f, dir_cluster))

file_open(f, d, rh, wh, cwd, filename, function) ==
    LET absolute == filename # <<>> /\ filename[1] = 47
        start == IF ~absolute /\ cwd >= 2 THEN cwd ELSE root_dir_first_cluster
        NotDot(t) == t # <<46>>
        \* the scan of the directory that holds the last component
        Last(dir_cluster, name, slots, k) ==
            IF k # 0 THEN OpenFound(f, d, rh, wh, slots[k], function)
            ELSE OpenMissing(f, d, rh, wh, dir_cluster, name, function)
        Scan(dir_cluster, name, slots) ==
            Last(dir_cluster, name, slots,
                 FirstWhere([z \in 1..Len(slots) |-> NameMatch(d, slots[z], name)]))
        Walk(parts, dir_cluster) ==
            IF parts = <<>> \/ dir_cluster = 0
            THEN OpenResult("FILE_NOT_FOUND", f, d, rh, wh)
            ELSE Scan(dir_cluster, parts[Len(parts)], DirSlots(f, dir_cluster))
        Descend(parts) == Walk(parts, WalkPath(f, d, start, parts, 1))
        Parse(tokens, firstReal) ==
            IF filename = <<>> \/ tokens = <<>>
            THEN OpenResult("FILE_NOT_FOUND", f, d, rh, wh)
            ELSE IF firstReal # 0 /\ tokens[firstReal] = <<46, 46>>
            THEN OpenResult("FILE_NOT_FOUND", f, d, rh, wh)
            ELSE Descend(SelectSeq(tokens, NotDot))
        Tokenise(tokens) ==
            Parse(tokens, FirstWhere([z \in 1..Len(tokens) |-> NotDot(tokens[z])]))
    IN  Tokenise(Tokens(IF absolute THEN Tail(filename) ELSE filename, 1, <<>>, 47))

----------------------------------------------------------------------------
(* file_write, file_read, file_close *)

IsLfnAttr(e) == e.attr % 16 = AT_LFN

\* the entry loops of file_write and update_directory_entry_size: the first
\* slot of the sector at dir_lba that is FILE_CLEAR (stop) or a candidate
PatchDirSector(d, dir_lba, cand, patched) ==
    LET sector == get_physical_block(d, dir_lba)
        Idx == [i \in 1..SectorSize |-> i]
        StopOrCand(i) ==
            \/ sector[i].name[1] = FILE_CLEAR
            \/ /\ sector[i].name[1] # FILE_ERASED
               /\ ~IsLfnAttr(sector[i])
               /\ cand[i]
        k == FirstWhere([z \in 1..Len(Idx) |-> StopOrCand(Idx[z])])
    IN  IF k = 0 \/ sector[k].name[1] = FILE_CLEAR THEN d
        ELSE store_physical_block(d, dir_lba, [sector EXCEPT ![k] = patched[k]])

\* the entries of the directory sector of write handle wh
DirSector(d, wh) == get_physical_block(d, wh.Dir_Entry)

\* file_write: record the first cluster in "the first entry that has
\* size == write_handler.File_Size and zero cluster"
UpdateFirstCluster(d, wh) ==
    LET Cand(e) == e.size = wh.File_Size /\ FirstCluster(e) = 0
        Patch(e) == [e EXCEPT !.fc = wh.BaseFatEntry]
        sector == DirSector(d, wh)
    IN  PatchDirSector(d, wh.Dir_Entry,
                       [i \in 1..SectorSize |-> Cand(sector[i])],
                       [i \in 1..SectorSize |-> Patch(sector[i])])

\* file_write: record the size in the first entry whose first cluster is
\* BaseFatEntry (or any non-zero first cluster when BaseFatEntry is 0)
UpdateSize(d, wh) ==
    LET Cand(e) == \/ wh.BaseFatEntry # 0 /\ FirstCluster(e) = wh.BaseFatEntry
                   \/ wh.BaseFatEntry = 0 /\ FirstCluster(e) # 0
        Patch(e) == [e EXCEPT !.size = wh.File_Size]
        sector == DirSector(d, wh)
    IN  PatchDirSector(d, wh.Dir_Entry,
                       [i \in 1..SectorSize |-> Cand(sector[i])],
                       [i \in 1..SectorSize |-> Patch(sector[i])])

update_directory_entry_size(d, wh) ==
    LET Cand(e) == wh.BaseFatEntry # 0 /\ FirstCluster(e) = wh.BaseFatEntry
        Patch(e) == [e EXCEPT !.size = wh.File_Size]
        sector == DirSector(d, wh)
    IN  IF wh.Dir_Entry = 0 THEN d
        ELSE PatchDirSector(d, wh.Dir_Entry,
                            [i \in 1..SectorSize |-> Cand(sector[i])],
                            [i \in 1..SectorSize |-> Patch(sector[i])])

WriteResult(f, d, wh, complete) ==
    [fat |-> f, disk |-> d, wh |-> wh, complete |-> complete]

RECURSIVE WriteLoop(_, _, _, _)
\* file_write: the sector loop; complete is FALSE when it returned early
\* because no cluster was free
WriteLoop(f, d, wh, data) ==
    IF data = <<>> THEN WriteResult(f, d, wh, TRUE)
    ELSE
    LET cur_cluster == wh.CurrentFatEntry
        lba == ClusterLba(wh.CurrentFatEntry, wh.SectorIndex)
        chunk == Min(Len(data), sector_size)
        rest == SubSeq(data, chunk + 1, Len(data))
        wh1 == [wh EXCEPT !.File_Size = @ + chunk, !.SectorIndex = @ + 1]
        \* a short last chunk is written over the sector read back
        Merge(old) ==
            IF chunk # sector_size
            THEN [i \in 1..SectorSize |-> IF i <= chunk THEN data[i] ELSE old[i]]
            ELSE SubSeq(data, 1, chunk)
        Advance(d1, next, newc) ==
            IF wh1.SectorIndex < cluster_size THEN WriteLoop(f, d1, wh1, rest)
            ELSE IF next < 2 \/ next >= EOC_MIN
            THEN IF newc < 2
                 THEN WriteResult(f, d1, [wh1 EXCEPT !.SectorIndex = 0], FALSE)
                 ELSE WriteLoop(fat_entry_write(fat_entry_write(f, cur_cluster, newc),
                                                newc, EOC_MIN),
                          ZeroCluster(d1, newc),
                          [wh1 EXCEPT !.SectorIndex = 0, !.CurrentFatEntry = newc], rest)
            ELSE WriteLoop(f, d1,
                     [wh1 EXCEPT !.SectorIndex = 0, !.CurrentFatEntry = next], rest)
    IN  Advance(store_physical_block(d, lba, Merge(get_physical_block(d, lba))),
                fat_entry_read(f, cur_cluster),
                fat_search_available_cluster(f, cur_cluster))

file_write(f, d, wh, data) ==
    LET needFirst == wh.CurrentFatEntry < 2
        Finish(w) ==
            IF ~w.complete THEN w
            ELSE WriteResult(w.fat, UpdateSize(w.disk, w.wh), w.wh, TRUE)
        Start(newc, wh1) ==
            IF data = <<>> \/ wh.Dir_Entry = 0 THEN WriteResult(f, d, wh, data = <<>>)
            ELSE IF needFirst /\ newc < 2 THEN WriteResult(f, d, wh, FALSE)
            ELSE Finish(WriteLoop(
                     IF needFirst THEN fat_entry_write(f, newc, EOC_MIN) ELSE f,
                     IF needFirst THEN UpdateFirstCluster(ZeroCluster(d, newc), wh1) ELSE d,
                     wh1, data))
        First(newc) ==
            Start(newc, IF needFirst
                        THEN [wh EXCEPT !.BaseFatEntry = newc, !.CurrentFatEntry = newc,
                                        !.ClusterIndex = 0, !.SectorIndex = 0]
                        ELSE wh)
    IN  First(fat_search_available_cluster(f, 2))

\* a file_read that always takes a whole sector
file_read_on_Mutant(f, d, h) ==
    LET sector == get_physical_block(d, ClusterLba(h.FAT_Entry, h.SectorOffset))
        h1 == [h EXCEPT !.File_Size = IF @ > SECTOR_SIZE THEN @ - SECTOR_SIZE ELSE 0,
                        !.SectorOffset = @ + 1]
    IN  IF h.File_Size = 0 THEN [n |-> 0, data |-> <<>>, h |-> h]
        ELSE [n |-> SECTOR_SIZE, data |-> sector, h |-> h1]

\* file_read on handle h (the internal handle, or the caller's after the
\* copy-in of the internal one): bytes returned, their count, the handle after
file_read_on(f, d, h) ==
    LET bytes_to_read == Min(SECTOR_SIZE, h.File_Size)
        sector == get_physical_block(d, ClusterLba(h.FAT_Entry, h.SectorOffset))
        h1 == [h EXCEPT !.File_Size = @ - bytes_to_read, !.SectorOffset = @ + 1]
        next_cluster == fat_entry_read(f, h.FAT_Entry)
        h2 == IF h1.SectorOffset >= cluster_size
              THEN [h1 EXCEPT !.SectorOffset = 0, !.FAT_Entry = next_cluster,
                              !.File_Size = IF next_cluster >= EOC_MIN \/ next_cluster < 2
                                            THEN 0 ELSE @]
              ELSE h1
    IN  IF h.File_Size = 0 THEN [n |-> 0, data |-> <<>>, h |-> h]
        ELSE [n |-> bytes_to_read, data |-> SubSeq(sector, 1, bytes_to_read), h |-> h2]

\* file_read(buffer, handler): given is FALSE for a null handler pointer
file_read(f, d, rh, handler, given) ==
    IF ~given THEN file_read_on(f, d, rh)
    ELSE IF handler.File_Size = 0 /\ handler.FAT_Entry = 0 /\ rh.File_Size # 0
         THEN file_read_on(f, d, rh)
         ELSE file_read_on(f, d, handler)

\* file_close: disk and handles after the call
file_close(d, rh, wh) ==
    [disk |-> IF wh.Dir_Entry # 0 THEN update_directory_entry_size(d, wh) ELSE d,
     wh |-> IF wh.Dir_Entry # 0 THEN WriteHandler ELSE wh,
     rh |-> IF rh.Dir_Entry # 0 THEN ReadHandler ELSE rh]

----------------------------------------------------------------------------
(* rename_file, create_directory, change_directory *)

\* the lambda basename of rename_file: what follows the last '/'
Basename(path) ==
    IF \E i \in 1..Len(path) : path[i] = 47
    THEN SubSeq(path, (CHOOSE i \in 1..Len(path) :
                          path[i] = 47 /\ \A j \in (i + 1)..Len(path) : path[j] # 47) + 1,
                Len(path))
    ELSE path

\* rename_file: the slots of the sector its two loops look at
RenameVisible(sector, i) ==
    /\ \A j \in 1..i : sector[j].name[1] # FILE_CLEAR
    /\ sector[i].name[1] # FILE_ERASED
    /\ sector[i].attr # AT_LFN

\* an update of the renamed entry that also clears its size
Renamed_Mutant(e, dos11) == [e EXCEPT !.name = dos11, !.size = 0]

\* the two memcpy of rename_file: the 8 + 3 name bytes of entry e replaced
Renamed(e, dos11) == [e EXCEPT !.name = dos11]

rename_file(f, d, rh, wh, cwd, old_name, new_name) ==
    LET Idx == [i \in 1..SectorSize |-> i]
        Replace(dos, fr, dir_lba, sector, collision, k) ==
            IF dir_lba = 0 \/ collision # 0 \/ k = 0
            THEN [res |-> FALSE, disk |-> d, wh |-> fr.wh]
            ELSE [res |-> TRUE, wh |-> fr.wh,
                  disk |-> store_physical_block(d, dir_lba,
                               [sector EXCEPT ![k] = Renamed(sector[k], dos.out11)])]
        InSector(old_base, new_base, dos, fr, dir_lba, sector) ==
            Replace(dos, fr, dir_lba, sector,
                FirstWhere([z \in 1..Len(Idx) |->
                    RenameVisible(sector, Idx[z])
                    /\ iequals(DosName(sector[Idx[z]], TRUE), new_base)]),
                FirstWhere([z \in 1..Len(Idx) |->
                    RenameVisible(sector, Idx[z])
                    /\ iequals(DosName(sector[Idx[z]], TRUE), old_base)]))
        Opened(old_base, new_base, dos, fr) ==
            IF ~dos.ok THEN [res |-> FALSE, disk |-> d, wh |-> wh]
            ELSE IF fr.res \notin {"FILE_FOUND", "FILE_CREATE_OK"}
            THEN [res |-> FALSE, disk |-> d, wh |-> wh]
            ELSE InSector(old_base, new_base, dos, fr, fr.wh.Dir_Entry,
                          get_physical_block(d, fr.wh.Dir_Entry))
    IN  Opened(Basename(old_name), Basename(new_name), to_dos_8_3(Basename(new_name)),
               file_open(f, d, rh, wh, cwd, old_name, "MODIFY"))

DotName == <<46, 32, 32, 32, 32, 32, 32, 32, 32, 32, 32>>
DotDotName == <<46, 46, 32, 32, 32, 32, 32, 32, 32, 32, 32>>

create_directory(f, d, cwd, dir_name) ==
    LET parent == IF cwd # 0 THEN cwd ELSE root_dir_first_cluster
        \* the first sector of the new directory: "." and ".."
        DotEntries(newc) ==
            [i \in 1..SectorSize |->
                IF i = 1 THEN NewEntry(DotName, AT_DIRECTORY, newc)
                ELSE IF i = 2 THEN NewEntry(DotDotName, AT_DIRECTORY, parent)
                ELSE ZeroUnit]
        \* no usable slot in the parent: a new cluster is linked after lastc
        Extend(f1, d1, entry, chain, lastc, next, freec) ==
            IF Len(chain) = Fuel \/ ~(next >= EOC_MIN \/ next = 0) \/ freec < 2
            THEN [res |-> FALSE, fat |-> f1, disk |-> d1]
            ELSE [res |-> TRUE,
                  fat |-> fat_entry_write(fat_entry_write(f1, lastc, freec),
                                          freec, EOC_MIN),
                  disk |-> SetSlot(ZeroCluster(d1, freec),
                                   [c |-> freec, s |-> 0, i |-> 1], entry)]
        Place(f1, d1, entry, chain, slots, k) ==
            IF chain = <<>> THEN [res |-> FALSE, fat |-> f1, disk |-> d1]
            ELSE IF k # 0
            THEN [res |-> TRUE, fat |-> f1, disk |-> SetSlot(d1, slots[k], entry)]
            ELSE Extend(f1, d1, entry, chain, chain[Len(chain)],
                        fat_entry_read(f1, chain[Len(chain)]),
                        fat_search_available_cluster(f1, chain[Len(chain)]))
        Scan(f1, d1, entry, chain, slots) ==
            Place(f1, d1, entry, chain, slots,
                  FirstWhere([z \in 1..Len(slots) |->
                      SlotAt(d1, slots[z]).name[1] \in {FILE_CLEAR, FILE_ERASED}]))
        Made(dos, newc, f1, d1) ==
            IF (\E i \in 1..Len(dir_name) : dir_name[i] = 47) \/ ~dos.ok \/ newc < 2
            THEN [res |-> FALSE, fat |-> f, disk |-> d]
            ELSE Scan(f1, d1, NewEntry(dos.out11, AT_DIRECTORY, newc),
                      ChainFrom(f1, parent, Fuel), DirSlots(f1, parent))
        Alloc(dos, newc) ==
            Made(dos, newc, fat_entry_write(f, newc, EOC_MIN),
                 store_physical_block(ZeroCluster(d, newc), ClusterLba(newc, 0),
                                      DotEntries(newc)))
    IN  Alloc(to_dos_8_3(dir_name), fat_search_available_cluster(f, parent))

RECURSIVE WalkDirs(_, _, _, _, _)
\* change_directory: one directory scan per token
WalkDirs(f, d, current, tokens, idx) ==
    IF idx > Len(tokens) THEN current
    ELSE LET Hit(p) ==
                LET e == SlotAt(d, p)
                IN  /\ BeforeClear(d, p)
                    /\ e.name[1] # FILE_ERASED
                    /\ HasAttr(e, AT_DIRECTORY)
                    /\ e.attr # AT_LFN
                    /\ iequals(tokens[idx], CStr(Until(SubSeq(e.name, 1, 8), 32)))
                    /\ ValidCluster(FirstCluster(e))
             Step(slots, k) ==
                IF k = 0 THEN 0
                ELSE WalkDirs(f, d, FirstCluster(SlotAt(d, slots[k])), tokens, idx + 1)
             Scan(slots) ==
                Step(slots, FirstWhere([z \in 1..Len(slots) |-> Hit(slots[z])]))
         IN  Scan(DirSlots(f, current))

\* change_directory: result and the current directory after the call
change_directory(f, d, cwd, dir_name) ==
    LET p == IF dir_name # <<>> /\ dir_name[1] = 47 THEN Tail(dir_name) ELSE dir_name
        Arrive(current) ==
            IF dir_name = <<>> THEN [res |-> FALSE, cwd |-> cwd]
            ELSE IF dir_name = <<47>> THEN [res |-> TRUE, cwd |-> root_dir_first_cluster]
            ELSE IF current = 0 THEN [res |-> FALSE, cwd |-> cwd]
            ELSE [res |-> TRUE, cwd |-> current]
    IN  Arrive(WalkDirs(f, d, root_dir_first_cluster, Tokens(p, 1, <<>>, 47), 1))

----------------------------------------------------------------------------
(* list_directory *)

\* the name fat_filename_parser leaves in filename_out for a short entry
ParsedName(e) ==
    IF HasAttr(e, AT_DIRECTORY)
    THEN CStr(Until(SubSeq(e.name, 1, 8), 32) \o <<92>>)
    ELSE CStr(Until(SubSeq(e.name, 1, 8), 32) \o <<46>> \o SubSeq(e.name, 9, 11))

RECURSIVE ListEntries(_, _, _)
\* list_directory: the entries pushed while walking the slots; the walk
\* ends at the first FILE_CLEAR slot
ListEntries(d, slots, k) ==
    IF k > Len(slots) \/ SlotAt(d, slots[k]).name[1] = FILE_CLEAR THEN <<>>
    ELSE LET e == SlotAt(d, slots[k])
             type == fat_filename_parser(e)
         IN  (IF type = "_File"
              THEN <<[dosFileName |-> ParsedName(e), type |-> "_File", size |-> e.size]>>
              ELSE IF type = "_Directory"
              THEN <<[dosFileName |-> ParsedName(e), type |-> "_Directory", size |-> 0]>>
              ELSE <<>>)
             \o ListEntries(d, slots, k + 1)

list_directory(f, d, cwd) ==
    ListEntries(d, DirSlots(f, IF cwd # 0 THEN cwd ELSE root_dir_first_cluster), 1)

----------------------------------------------------------------------------
(* fat_filename_parser on the 32 bytes of a directory entry                *)

\* a directory entry as its 32 bytes; byte pos of the entry is e[pos + 1]
ShortEntry(name11, attr) ==
    [p \in 1..32 |-> IF p <= 11 THEN name11[p] ELSE IF p = 12 THEN attr ELSE 0]

\* an LFN fragment: the text, then 0x0000 when there is room, then 0xFFFF
LfnEntry(ordinal, text) ==
    LET Unit(i) == IF i < Len(text) THEN text[i + 1]
                   ELSE IF i = Len(text) THEN 0 ELSE 65535
        Lo(pos) == \E i \in 0..12 : LFN_CHAR_POSITIONS[i + 1] = pos
        Hi(pos) == \E i \in 0..12 : LFN_CHAR_POSITIONS[i + 1] + 1 = pos
        IndexOf(pos) == CHOOSE i \in 0..12 : LFN_CHAR_POSITIONS[i + 1] \in {pos, pos - 1}
    IN  [p \in 1..32 |->
            IF p = 1 THEN ordinal
            ELSE IF p = 12 THEN AT_LFN
            ELSE IF Lo(p - 1) THEN Unit(IndexOf(p - 1)) % 256
            ELSE IF Hi(p - 1) THEN Unit(IndexOf(p - 1)) \div 256
            ELSE 0]

\* a name buffer: offset -> char for the offsets written; NoChars is a buffer
\* nothing was written to
NoChars == [x \in {} |-> 0]

\* the C string a buffer holds, an offset never written reading as '\0'
StrOf(b) ==
    LET Ends == {x \in 0..MAX_LFN_CHARACTERS : x \notin DOMAIN b \/ b[x] = 0}
        n == CHOOSE x \in Ends : \A y \in Ends : x <= y
    IN  [x \in 1..n |-> b[x - 1]]

\* a parser in which the LFN attribute is not taken for a volume label
fat_filename_parser_NoLabelTest(dir_entry, lfn_index, filename_out) ==
    LET Byte(pos) == dir_entry[pos + 1]
        Store(b, offs, Val(_)) ==
            [x \in DOMAIN b \cup {o \in offs : o < MAX_LFN_CHARACTERS} |->
                IF x \in offs THEN Val(x) ELSE b[x]]
        Top(offs) == CHOOSE o \in offs : \A x \in offs : x <= o
        index == IF Byte(0) > 64 THEN ((Byte(0) - 65) * 13) % 256
                 ELSE (lfn_index - 13) % 256
        Unit(i) == Byte(LFN_CHAR_POSITIONS[i + 1])
                      + 256 * Byte(LFN_CHAR_POSITIONS[i + 1] + 1)
        Stops == {i \in 0..12 : Unit(i) \in {0, 65535}}
        n == IF Stops = {} THEN 13 ELSE CHOOSE i \in Stops : \A j \in Stops : i <= j
        LfnOffs == {0} \cup {index + i : i \in 0..(n - 1)}
                       \cup (IF n < 13 /\ Unit(n) = 0 THEN {index + n} ELSE {})
                       \cup (IF Byte(0) > 64 THEN {index + 13} ELSE {})
        LfnChar(x) == IF x - index \in 0..(n - 1)
                      THEN Byte(LFN_CHAR_POSITIONS[x - index + 1]) ELSE 0
        Base == Until(SubSeq(dir_entry, 1, 8), 32)
        Text == IF (Byte(11) \div AT_DIRECTORY) % 2 = 1
                THEN Base \o <<92, 0>>
                ELSE Base \o <<46>> \o SubSeq(dir_entry, 9, 11) \o <<0>>
        TextChar(x) == Text[x + 1]
    IN  IF Byte(0) # FILE_CLEAR /\ Byte(0) # FILE_ERASED
        THEN IF Byte(11) = AT_LFN
             THEN [type |-> IF index # 0 THEN "_LongFileNameNOK"
                            ELSE "_LongFileNameOK",
                   lfn_index |-> index,
                   out |-> Store(filename_out, LfnOffs, LfnChar),
                   top |-> Top(LfnOffs)]
             ELSE [type |-> IF (Byte(11) \div AT_DIRECTORY) % 2 = 1
                            THEN "_Directory" ELSE "_File",
                   lfn_index |-> lfn_index,
                   out |-> Store(filename_out, 0..(Len(Text) - 1), TextChar),
                   top |-> Len(Text) - 1]
        ELSE [type |-> "_Error", lfn_index |-> lfn_index,
              out |-> Store(filename_out, {0}, LAMBDA x : 0), top |-> 0]

\* fat_filename_parser(dir_entry, filename_out) with its static lfn_index:
\* the type returned, lfn_index and the buffer after the call, and the
\* highest offset of filename_out written.  lfn_index is a uint8_t; the
\* offsets lfn_index + i and lfn_index + 13 are computed as int
fat_filename_parser_lfn(dir_entry, lfn_index, filename_out) ==
    LET Byte(pos) == dir_entry[pos + 1]
        Store(b, offs, Val(_)) ==
            [x \in DOMAIN b \cup {o \in offs : o < MAX_LFN_CHARACTERS} |->
                IF x \in offs THEN Val(x) ELSE b[x]]
        Top(offs) == CHOOSE o \in offs : \A x \in offs : x <= o
        index == IF Byte(0) > 64 THEN ((Byte(0) - 65) * 13) % 256
                 ELSE (lfn_index - 13) % 256
        Unit(i) == Byte(LFN_CHAR_POSITIONS[i + 1])
                      + 256 * Byte(LFN_CHAR_POSITIONS[i + 1] + 1)
        \* the copy loop stops at 0x0000, which it stores as '\0', or at 0xFFFF
        Stops == {i \in 0..12 : Unit(i) \in {0, 65535}}
        n == IF Stops = {} THEN 13 ELSE CHOOSE i \in Stops : \A j \in Stops : i <= j
        LfnOffs == {0} \cup {index + i : i \in 0..(n - 1)}
                       \cup (IF n < 13 /\ Unit(n) = 0 THEN {index + n} ELSE {})
                       \cup (IF Byte(0) > 64 THEN {index + 13} ELSE {})
        LfnChar(x) == IF x - index \in 0..(n - 1)
                      THEN Byte(LFN_CHAR_POSITIONS[x - index + 1]) ELSE 0
        Base == Until(SubSeq(dir_entry, 1, 8), 32)
        Text == IF (Byte(11) \div AT_DIRECTORY) % 2 = 1
                THEN Base \o <<92, 0>>
                ELSE Base \o <<46>> \o SubSeq(dir_entry, 9, 11) \o <<0>>
        TextChar(x) == Text[x + 1]
    IN  IF Byte(0) # FILE_CLEAR /\ Byte(0) # FILE_ERASED
           /\ (Byte(11) \div AT_VOLUME_ID) % 2 = 0
        THEN IF Byte(11) = AT_LFN
             THEN [type |-> IF index # 0 THEN "_LongFileNameNOK"
                            ELSE "_LongFileNameOK",
                   lfn_index |-> index,
                   out |-> Store(filename_out, LfnOffs, LfnChar),
                   top |-> Top(LfnOffs)]
             ELSE [type |-> IF (Byte(11) \div AT_DIRECTORY) % 2 = 1
                            THEN "_Directory" ELSE "_File",
                   lfn_index |-> lfn_index,
                   out |-> Store(filename_out, 0..(Len(Text) - 1), TextChar),
                   top |-> Len(Text) - 1]
        ELSE [type |-> "_Error", lfn_index |-> lfn_index,
              out |-> Store(filename_out, {0}, LAMBDA x : 0), top |-> 0]

\* no scan is running; the static lfn_index is 0 at program start
LfnIdle ==
    [caller |-> "-", name |-> <<>>, dir |-> 0, at |-> 0, done |-> TRUE,
     lfn_index |-> 0, buf |-> NoChars, saved |-> <<>>, flag |-> FALSE,
     list |-> <<>>, found |-> 0, type |-> "-", top |-> 0]

----------------------------------------------------------------------------
(* cleanup_deleted_files *)

\* index of the first FILE_CLEAR slot of a sector, 0 if none
FirstClear(sector) ==
    LET Idx == [i \in 1..SectorSize |-> i]
        IsClear(i) == sector[i].name[1] = FILE_CLEAR
    IN  FirstWhere([z \in 1..Len(Idx) |-> IsClear(Idx[z])])

\* the slots of a sector before its first FILE_CLEAR slot
ScanLen(sector) ==
    LET Upto(clear) == IF clear = 0 THEN SectorSize ELSE clear - 1
    IN  Upto(FirstClear(sector))

\* compact_directory_sector: surviving entries move to the front; the tail is
\* cleared only when the loop met a FILE_CLEAR slot
compact_directory_sector(d, lba) ==
    LET NotErased(e) == e.name[1] # FILE_ERASED
        Compact(sector, kept, clear) ==
            [i \in 1..SectorSize |->
                IF i <= Len(kept) THEN kept[i]
                ELSE IF clear # 0 /\ sector[i].name[1] # FILE_CLEAR
                THEN ZeroUnit
                ELSE sector[i]]
        Keep(sector) ==
            Compact(sector, SelectSeq(SubSeq(sector, 1, ScanLen(sector)), NotErased),
                    FirstClear(sector))
    IN  store_physical_block(d, lba, Keep(get_physical_block(d, lba)))

\* scan_directory, first pass over one sector: a file entry whose first
\* cluster reads FREE is marked erased
MarkOrphans(f, d, lba) ==
    LET sector == get_physical_block(d, lba)
        Orphan(i) ==
            /\ i <= ScanLen(sector)
            /\ sector[i].name[1] # FILE_ERASED
            /\ sector[i].attr # AT_LFN
            /\ ~HasAttr(sector[i], AT_DIRECTORY)
            /\ ValidCluster(FirstCluster(sector[i]))
            /\ fat_entry_read(f, FirstCluster(sector[i])) = CLUSTER_FREE
    IN  store_physical_block(d, lba,
            [i \in 1..SectorSize |->
                IF Orphan(i) THEN [sector[i] EXCEPT !.name[1] = FILE_ERASED]
                ELSE sector[i]])

\* scan_directory, first pass over one sector: the subdirectories to visit
SubdirsOf(d, lba) ==
    LET sector == get_physical_block(d, lba)
        IsSub(e) == /\ e.name[1] # FILE_ERASED
                    /\ e.attr # AT_LFN
                    /\ HasAttr(e, AT_DIRECTORY)
                    /\ e.name[1] # 46
                    /\ ValidCluster(FirstCluster(e))
        subs == SelectSeq(SubSeq(sector, 1, ScanLen(sector)), IsSub)
    IN  [n \in 1..Len(subs) |-> FirstCluster(subs[n])]

\* the sectors of a directory chain in scan order
DirLbas(f, dir_cluster) ==
    LET LbasOf(chain) ==
            Flatten([n \in 1..Len(chain) |->
                        [k \in 1..cluster_size |-> ClusterLba(chain[n], k - 1)]])
    IN  LbasOf(ChainFrom(f, dir_cluster, Fuel))

RECURSIVE ScanSectors(_, _, _, _, _)
\* scan_directory: the loop over the sectors of one directory; the result
\* is the disk after both passes and the subdirectories collected
ScanSectors(f, d, lbas, k, subdirs) ==
    IF k > Len(lbas) THEN [disk |-> d, subdirs |-> subdirs]
    ELSE ScanSectors(f,
             compact_directory_sector(MarkOrphans(f, d, lbas[k]), lbas[k]),
             lbas, k + 1, subdirs \o SubdirsOf(d, lbas[k]))

RECURSIVE scan_directory(_, _, _, _)
RECURSIVE ScanSubdirs(_, _, _, _, _)
\* scan_directory(dir_cluster); depth bounds the recursion of the model
scan_directory(f, d, dir_cluster, depth) ==
    IF depth = 0 \/ ~ValidCluster(dir_cluster) THEN d
    ELSE LET Visit(r) == ScanSubdirs(f, r.disk, r.subdirs, 1, depth - 1)
         IN  Visit(ScanSectors(f, d, DirLbas(f, dir_cluster), 1, <<>>))

ScanSubdirs(f, d, subdirs, k, depth) ==
    IF k > Len(subdirs) THEN d
    ELSE ScanSubdirs(f, scan_directory(f, d, subdirs[k], depth), subdirs, k + 1, depth)

cleanup_deleted_files(f, d) == scan_directory(f, d, root_dir_first_cluster, Fuel)

\* count_free_clusters: every entry of every FAT sector that reads 0
count_free_clusters(f) ==
    Cardinality({c \in 0..(FatEntries - 1) : f[c].lo = CLUSTER_FREE})

----------------------------------------------------------------------------
(* The volume after format_fat32 and mount *)

Formatted ==
    [c \in 0..(FatEntries - 1) |->
        IF c = 0 THEN [hi |-> 0, lo |-> EOC_MIN]
        ELSE IF c = 1 THEN [hi |-> 15, lo |-> EOC_MAX]
        ELSE IF c = root_dir_first_cluster THEN [hi |-> 0, lo |-> EOC_MAX]
        ELSE [hi |-> 0, lo |-> CLUSTER_FREE]]

EmptyDisk == [lba \in DataLbas |-> ZeroSector]

----------------------------------------------------------------------------
(* SDCard, the block driver under FAT32 (src/unnamed/part_000, SDCard.h)   *)

CARD_TYPE_SD_V1 == 0
CARD_TYPE_SD_V2 == 1
CARD_TYPE_SDHC == 2
DATA_TOKEN == 254
\* R1 answers of the card: ready, idle, illegal command, no answer
R1_READY == 0
R1_IDLE_STATE == 1
R1_ILLEGAL_COMMAND == 5
R1_NONE == 255
\* the data response of a block the card accepted
DATA_ACCEPTED == 5
\* the attempts of the ACMD41 loop (1000 on the device)
MaxAcmd41Attempts == 2

\* the object after its constructor
SDCard ==
    [initialized |-> FALSE, card_type |-> 0, last_status |-> "SD_OK",
     in_block_ |-> FALSE, block_ |-> 0, offset_ |-> 0,
     partial_block_read_ |-> FALSE]

\* a call that returns false after storing a status
Fail(s, status) == [ok |-> FALSE, sd |-> [s EXCEPT !.last_status = status]]
\* a call that returns b without storing one
Ret(b, s) == [ok |-> b, sd |-> s]

\* SDCard::init and the stages it calls.  a holds the answers of the card:
\* cmd0 (the answer to CMD0 until the timeout), cmd8 and echo (R1 and the
\* check pattern of CMD8), ready_at (the attempt at which ACMD41 answers
\* 0x00), cmd58 (R1 of CMD58, which initialize_card does not look at), ccs
\* (bit 30 of the four bytes read after it) and cmd16
SDCard_init(s, a) ==
    LET send_cmd0(t) ==
            IF a.cmd0 = R1_IDLE_STATE THEN Ret(TRUE, t)
            ELSE IF a.cmd0 = R1_NONE THEN Fail(t, "SD_NO_CARD")
            ELSE Ret(FALSE, t)
        Idled(r) == IF ~r.ok THEN Fail(r.sd, "SD_NO_CARD") ELSE Ret(TRUE, r.sd)
        reset_to_idle(t) == Idled(send_cmd0(t))
        detect_card_version ==
            [ok |-> a.cmd8 \in {R1_IDLE_STATE, R1_ILLEGAL_COMMAND},
             is_sdhc |-> a.cmd8 = R1_IDLE_STATE /\ a.echo]
        initialize_card(t, is_sdhc) ==
            IF a.ready_at < MaxAcmd41Attempts
            THEN Ret(TRUE, [t EXCEPT !.card_type =
                           IF a.ccs THEN CARD_TYPE_SDHC
                           ELSE IF is_sdhc THEN CARD_TYPE_SD_V2
                           ELSE CARD_TYPE_SD_V1])
            ELSE Fail(t, "SD_INIT_TIMEOUT_ACMD41")
        Started(r) == IF ~r.ok THEN Fail(r.sd, "SD_INIT_FAILS") ELSE Ret(TRUE, r.sd)
        probe_card_and_initialize(t) ==
            IF ~detect_card_version.ok THEN Fail(t, "SD_INIT_FAILS")
            ELSE Started(initialize_card(t, detect_card_version.is_sdhc))
        set_standard_blocklen_if_needed(t) ==
            IF t.card_type # CARD_TYPE_SDHC /\ a.cmd16 # R1_READY
            THEN Fail(t, "SD_INIT_FAILS")
            ELSE Ret(TRUE, t)
        Mark(r) == IF ~r.ok THEN r
                   ELSE Ret(TRUE, [r.sd EXCEPT !.initialized = TRUE,
                                          !.last_status = "SD_OK"])
        Blocklen(r) == IF ~r.ok THEN r
                       ELSE Mark(set_standard_blocklen_if_needed(r.sd))
        Probe(r) == IF ~r.ok THEN r
                    ELSE Blocklen(probe_card_and_initialize(r.sd))
    IN  Probe(reset_to_idle(s))

\* the commands SDCard::init sends to a card that answers a, in their order.
\* The CMD0 that send_cmd0 repeats until the answer 0x01 or the timeout is
\* written once; hcs is bit 30 of the argument of ACMD41; send_app_command
\* sends CMD55 before each ACMD41, and the card answers it with 0x00 or 0x01
InitCommands(a) ==
    LET Cmd(c) == [cmd |-> c, hcs |-> FALSE]
        is_sdhc == a.cmd8 = R1_IDLE_STATE /\ a.echo
        attempts == IF a.ready_at < MaxAcmd41Attempts THEN a.ready_at + 1
                    ELSE MaxAcmd41Attempts
        send_app_command == <<Cmd("CMD55"), [cmd |-> "ACMD41", hcs |-> is_sdhc]>>
        initialize_card ==
            Flatten([i \in 1..attempts |-> send_app_command])
            \o (IF a.ready_at < MaxAcmd41Attempts THEN <<Cmd("CMD58")>> ELSE <<>>)
        set_standard_blocklen_if_needed ==
            IF a.ready_at < MaxAcmd41Attempts /\ ~a.ccs THEN <<Cmd("CMD16")>> ELSE <<>>
        probe_card_and_initialize ==
            <<Cmd("CMD8")>>
            \o (IF a.cmd8 \in {R1_IDLE_STATE, R1_ILLEGAL_COMMAND}
                THEN initialize_card \o set_standard_blocklen_if_needed
                ELSE <<>>)
    IN  <<Cmd("CMD0")>>
        \o (IF a.cmd0 = R1_IDLE_STATE THEN probe_card_and_initialize ELSE <<>>)

\* r1 answers CMD17, token is the byte that ends the wait for the data
read_block(s, r1, token) ==
    IF ~s.initialized THEN Fail(s, "SD_INIT_FAILS")
    ELSE IF r1 # R1_READY THEN Fail(s, "SD_READ_COMMAND_FAILS")
    ELSE IF token # DATA_TOKEN THEN Fail(s, "SD_READ_TIMEOUT_TOKEN")
    ELSE Ret(TRUE, [s EXCEPT !.last_status = "SD_OK"])

\* r1 answers CMD24, resp is the data response, idle tells whether the card
\* leaves busy in time, r1s and r2 answer CMD13
write_block(s, r1, resp, idle, r1s, r2) ==
    IF ~s.initialized THEN Fail(s, "SD_INIT_FAILS")
    ELSE IF r1 # R1_READY THEN Fail(s, "SD_WRITE_COMMAND_FAILS")
    ELSE IF resp % 32 # DATA_ACCEPTED THEN Fail(s, "SD_WRITE_DATA_FAILS")
    ELSE IF ~idle THEN Fail(s, "SD_WRITE_TIMEOUT_BUSY")
    ELSE IF r1s # R1_READY \/ r2 # 0 THEN Fail(s, "SD_WRITE_STATUS_ERROR")
    ELSE Ret(TRUE, [s EXCEPT !.last_status = "SD_OK"])

\* the card: whether it answers, the block a multiple-block write stores
\* next (0: none in progress), its size in blocks and the blocks written
\* below the data region
CardIn ==
    [ok |-> TRUE, wpos |-> 0,
     sectors |-> data_base + TotalClusters * cluster_size, blocks |-> <<>>]

----------------------------------------------------------------------------
(* format_fat32 and the mount that reads it back, with the offsets and the  *)
(* arithmetic of the device (blocks of 512 bytes)                          *)

\* A block is kept as the fields stored into it: val is stored little-endian
\* in the len bytes from offset at, every other byte is 0 (the memset before
\* the stores).  ReadLE reads the n bytes from offset at of the block of the
\* card at lba as a little-endian number; the block is the last one written
\* there (a card out of its package holds zeros)
RECURSIVE ReadLE(_, _, _, _)
ReadLE(c, lba, at, n) ==
    LET Written == {i \in 1..Len(c.blocks) :
                       lba >= c.blocks[i].lo /\ lba <= c.blocks[i].hi}
        Hit(b) == {f \in b : at >= f.at /\ at < f.at + f.len}
        Byte(f) == (f.val \div (256 ^ (at - f.at))) % 256
        ByteOf(b) == IF Hit(b) = {} THEN 0 ELSE Byte(CHOOSE f \in Hit(b) : TRUE)
    IN  IF n = 0 THEN 0
        ELSE (IF Written = {} THEN 0
              ELSE ByteOf(c.blocks[CHOOSE i \in Written :
                                      \A j \in Written : j <= i].data))
             + 256 * ReadLE(c, lba, at + 1, n - 1)

\* SDCard::format_fat32(volume_label) at the time serial (ms since boot).
\* The card stores a block whose address is below its size and refuses
\* every other one; the result holds the card after the writes
format_fat32(s, c, volume_label, serial) ==
    LET total_sectors == IF c.ok THEN c.sectors ELSE 0
        Spc(t) == IF t > 65536 THEN 64
                  ELSE IF t > 32768 THEN 32
                  ELSE IF t > 16384 THEN 16
                  ELSE 8
        Clusters(t) == (t - reserved_sectors) \div Spc(t)
        FatSize(t) == ((Clusters(t) + 2) * 4 + 511) \div 512
        fat_start == partition_start + reserved_sectors
        DataStart(t) == fat_start + num_fats * FatSize(t)
        Sig == [at |-> 510, len |-> 2, val |-> 43605]
        Mbr(t) ==
            {Sig,
                   [at |-> 446, len |-> 1, val |-> 128],
                   [at |-> 450, len |-> 1, val |-> 12],
                   [at |-> 451, len |-> 3, val |-> 16777215],
                   [at |-> 454, len |-> 4, val |-> partition_start],
                   [at |-> 458, len |-> 4, val |-> t - partition_start]}
        Text(at, str) ==
            {[at |-> at + i - 1, len |-> 1, val |-> str[i]] : i \in 1..Len(str)}
        Bpb(t) ==
            {Sig,
                   [at |-> 0, len |-> 3, val |-> 9459947],
                   [at |-> 11, len |-> 2, val |-> 512],
                   [at |-> 13, len |-> 1, val |-> Spc(t)],
                   [at |-> 14, len |-> 2, val |-> reserved_sectors],
                   [at |-> 16, len |-> 1, val |-> num_fats],
                   [at |-> 21, len |-> 1, val |-> 248],
                   [at |-> 24, len |-> 2, val |-> 63],
                   [at |-> 26, len |-> 2, val |-> 255],
                   [at |-> 28, len |-> 4, val |-> partition_start],
                   [at |-> 32, len |-> 4, val |-> t - partition_start],
                   [at |-> 36, len |-> 4, val |-> FatSize(t)],
                   [at |-> 44, len |-> 4, val |-> root_dir_first_cluster],
                   [at |-> 48, len |-> 2, val |-> 1],
                   [at |-> 50, len |-> 2, val |-> 6],
                   [at |-> 66, len |-> 1, val |-> 41],
                   [at |-> 67, len |-> 4, val |-> serial]}
                  \cup Text(3, <<99, 117, 115, 116, 111, 109, 48, 49>>)
                  \cup Text(71, PadSpaces(volume_label, 11))
                  \cup Text(82, <<70, 65, 84, 51, 50, 32, 32, 32>>)
        FsInfo ==
            {Sig,
                   [at |-> 0, len |-> 4, val |-> 1096897106],
                   [at |-> 484, len |-> 4, val |-> 1631679090],
                   [at |-> 488, len |-> 2, val |-> 65535],
                   [at |-> 490, len |-> 2, val |-> 65535],
                   [at |-> 492, len |-> 2, val |-> 65535],
                   [at |-> 494, len |-> 2, val |-> 65535]}
        FatHead ==
            {[at |-> 0, len |-> 4, val |-> EOC_MIN],
                   [at |-> 4, len |-> 2, val |-> 65535],
                   [at |-> 6, len |-> 2, val |-> 65535],
                   [at |-> 8, len |-> 4, val |-> EOC_MAX]}
        \* the writes in the order of the code; the loop that zeroes the two
        \* FAT copies alternates between them, so the first copy is zeroed
        \* as far as the second one was reached
        Reach(t) == IF t - fat_start - FatSize(t) < 0 THEN 0
                    ELSE t - fat_start - FatSize(t)
        Writes(t) ==
            <<[lo |-> 0, hi |-> 0, data |-> Mbr(t)],
              [lo |-> partition_start, hi |-> partition_start, data |-> Bpb(t)],
              [lo |-> partition_start + 1, hi |-> partition_start + 1,
               data |-> FsInfo],
              [lo |-> fat_start, hi |-> fat_start, data |-> FatHead],
              [lo |-> fat_start + FatSize(t), hi |-> fat_start + FatSize(t),
               data |-> FatHead],
              [lo |-> fat_start + 1,
               hi |-> Min(fat_start + FatSize(t) - 1, fat_start + Reach(t)),
               data |-> {}],
              [lo |-> fat_start + FatSize(t) + 1,
               hi |-> fat_start + 2 * FatSize(t) - 1, data |-> {}],
              [lo |-> DataStart(t), hi |-> DataStart(t) + Spc(t) - 1,
               data |-> {}]>>
        Clip(t, w) == [w EXCEPT !.hi = Min(w.hi, t - 1)]
        Stored(t) ==
            SelectSeq([i \in 1..Len(Writes(t)) |-> Clip(t, Writes(t)[i])],
                      LAMBDA w : w.lo <= w.hi)
        Kept(t) ==
            SelectSeq(c.blocks,
                      LAMBDA b : \A i \in 1..Len(Stored(t)) : Stored(t)[i] # b)
        After(t) == [c EXCEPT !.blocks = Kept(t) \o Stored(t)]
        Result(r, cd) == [ok |-> r.ok, sd |-> r.sd, card |-> cd]
    IN  IF ~s.initialized THEN Result(Fail(s, "SD_INIT_FAILS"), c)
        ELSE IF total_sectors = 0 THEN Result(Ret(FALSE, s), c)
        ELSE IF DataStart(total_sectors) + Spc(total_sectors) > total_sectors
        THEN Result(write_block(s, R1_ILLEGAL_COMMAND, DATA_ACCEPTED, TRUE,
                                R1_READY, 0),
                    After(total_sectors))
        ELSE Result(Ret(TRUE, [s EXCEPT !.last_status = "SD_OK"]),
                    After(total_sectors))

\* the geometry members of the FAT32 object of a mounted volume
Geometry ==
    [initialized |-> TRUE, main_offset |-> main_offset,
     sector_size |-> sector_size, cluster_size |-> cluster_size,
     sectors_per_fat |-> sectors_per_fat, fat_base |-> fat_base,
     root_dir_first_cluster |-> root_dir_first_cluster,
     first_data_sector |-> first_data_sector, data_base |-> data_base,
     last_cluster |-> last_cluster]

\* the quotients that a division by zero may give: none of its bits set, or
\* the 16 low ones
DivisionByZero == {0, 65535}

\* FAT32::init() with read_master_block: m is the FAT32 object, the result
\* holds it after the call.  main_offset, fat_base, data_base and
\* last_cluster are uint16_t members.  div0 tells that the call divided by
\* zero, q is what such a division gives when it gives a value
FAT32_init(m, s, c, q) ==
    LET Readable(lba) == c.ok /\ lba < c.sectors
        \* the fields of the block at lba that the code reads
        U8(lba, at) == ReadLE(c, lba, at, 1)
        U16(lba, at) == ReadLE(c, lba, at, 2)
        U32(lba, at) == ReadLE(c, lba, at, 4)
        Signed(lba) == U16(lba, 510) = 43605
        looks_like_bpb ==
            (U8(0, 0) = 235 /\ U8(0, 2) = 144) \/ U8(0, 0) = 233
        Entries == {i \in 0..3 : U8(0, 446 + 16 * i + 4) \in {11, 12}}
        start_lba ==
            U32(0, 446 + 16 * (CHOOSE i \in Entries :
                                  \A j \in Entries : i <= j) + 8)
        bpb_lba == IF looks_like_bpb \/ Entries = {} THEN 0 ELSE start_lba
        fatsz(b) == IF U16(b, 22) # 0 THEN U16(b, 22) ELSE U32(b, 36)
        tot_sec(b) == IF U16(b, 19) # 0 THEN U16(b, 19) ELSE U32(b, 32)
        \* an unsigned division; the division by 0 is undefined and gives q
        Quot(x, y) == IF y = 0 THEN q ELSE x \div y
        \* read_master_block divides by sector_size and by cluster_size
        DivByZero(b) == U16(b, 11) = 0 \/ U8(b, 13) = 0
        root_dir_sectors(b) ==
            Quot(U16(b, 17) * 32 + (U16(b, 11) - 1), U16(b, 11))
        FirstData(b) ==
            U16(b, 14) + U8(b, 16) * fatsz(b) + root_dir_sectors(b)
        Parsed(b) ==
            [initialized |-> TRUE,
             main_offset |-> b % 65536,
             sector_size |-> U16(b, 11),
             cluster_size |-> U8(b, 13),
             sectors_per_fat |-> fatsz(b),
             fat_base |-> ((b % 65536) + U16(b, 14)) % 65536,
             root_dir_first_cluster |-> U32(b, 44),
             first_data_sector |-> FirstData(b),
             data_base |-> ((b % 65536) + FirstData(b)) % 65536,
             last_cluster |->
                 (Quot(tot_sec(b) - FirstData(b), U8(b, 13)) + 1) % 65536]
        Lost == [ok |-> FALSE, mounted |-> m,
                 sd |-> read_block(s, R1_NONE, R1_NONE).sd, div0 |-> FALSE]
        Bad == [ok |-> FALSE, mounted |-> m,
                sd |-> [s EXCEPT !.last_status = "SD_OK"], div0 |-> FALSE]
        Master(b) ==
            IF ~Readable(b) THEN Lost
            ELSE IF ~Signed(b) THEN Bad
            ELSE [ok |-> TRUE, mounted |-> Parsed(b),
                  sd |-> [s EXCEPT !.last_status = "SD_OK"], div0 |-> DivByZero(b)]
    IN  IF ~s.initialized THEN [ok |-> FALSE, mounted |-> m, sd |-> s, div0 |-> FALSE]
        ELSE IF ~Readable(0) THEN Lost
        ELSE IF ~Signed(0) THEN Bad
        ELSE Master(bpb_lba)

----------------------------------------------------------------------------
(* Inputs of the callers *)

NameA == <<97>>
NameB == <<98>>
NameD == <<100>>
\* "abcdefghi": a base name of nine characters
NameLong == <<97, 98, 99, 100, 101, 102, 103, 104, 105>>
OpenPaths == {NameA, NameB}
\* "../a", "d/../a", "d/../b" and "d/..": a parent component that comes
\* first, in the middle and last
DotPaths == {<<46, 46, 47>> \o NameA, NameD \o <<47, 46, 46, 47>> \o NameA,
             NameD \o <<47, 46, 46, 47>> \o NameB, NameD \o <<47, 46, 46>>}
Functions == {"READ", "CREATE", "MODIFY", "DELETE", "OVERWRITE"}
RenamePairs == {<<NameA, NameB>>, <<NameB, NameA>>, <<NameA, NameLong>>}
DirNames == {NameD}
ChdirNames == {<<47>>, NameD}

\* n units of caller data: 'A', 'B', ...
Payload(n) == [i \in 1..n |-> DataUnit(64 + i)]
Payloads == {Payload(n) : n \in {1, SectorSize, SectorSize + 1}}

----------------------------------------------------------------------------
(* Observation of the calls *)

\* the call just made, its result (a status as a string, a count, or a
\* listing), and the number of calls still to make
Obs(op, res, n, list) ==
    [op |-> op, res |-> res, n |-> n, list |-> list, left |-> last.left - 1,
     \* a file_close has been called and no file_open has succeeded since
     closed |-> IF op = "close" THEN TRUE
                ELSE IF op \in {"read", "write", "handler", "open"} THEN last.closed
                ELSE FALSE,
     reuse |-> FALSE,
     \* a block read or write of the call failed
     failed |-> FALSE]

\* the observation before the first call
Mounted(calls) ==
    [op |-> "mount", res |-> "true", n |-> 0, list |-> <<>>, left |-> calls,
     closed |-> FALSE, reuse |-> FALSE, failed |-> FALSE]

\* the directory a relative path starts from
StartDir(cwd) == IF cwd >= 2 THEN cwd ELSE root_dir_first_cluster

\* a CREATE of a name the directory scan does not find, in a directory that
\* has an erased slot before its first FILE_CLEAR slot
ReuseCase(f, d, cwd, name) ==
    LET Case(hit, erased, clear) ==
            /\ \A i \in 1..Len(name) : name[i] # 47
            /\ hit = 0 /\ erased # 0 /\ clear # 0 /\ erased < clear
        Scan(slots) ==
            Case(FirstWhere([z \in 1..Len(slots) |-> NameMatch(d, slots[z], name)]),
                 FirstWhere([z \in 1..Len(slots) |->
                                SlotAt(d, slots[z]).name[1] = FILE_ERASED]),
                 FirstWhere([z \in 1..Len(slots) |->
                                SlotAt(d, slots[z]).name[1] = FILE_CLEAR]))
    IN  Scan(DirSlots(f, StartDir(cwd)))

\* file_open gets as far as the read of a directory sector
OpenReads(filename) ==
    LET absolute == filename # <<>> /\ filename[1] = 47
        NotDot(t) == t # <<46>>
        Parse(tokens, firstReal) ==
            /\ filename # <<>>
            /\ firstReal # 0
            /\ tokens[firstReal] # <<46, 46>>
        Tokenise(tokens) ==
            Parse(tokens, FirstWhere([z \in 1..Len(tokens) |-> NotDot(tokens[z])]))
    IN  Tokenise(Tokens(IF absolute THEN Tail(filename) ELSE filename, 1, <<>>, 47))

Bool(b) == IF b THEN "true" ELSE "false"

Idle == [phase |-> "idle", name |-> <<>>, wrote |-> <<>>, got |-> <<>>,
         n |-> 0, mode |-> "-", rt |-> FALSE, full |-> FALSE, eof |-> FALSE,
         covered |-> FALSE]

\* the chain from cluster c ends in an end-of-chain marker and has room for
\* size units
Covers(f, c, size) ==
    LET Enough(chain) ==
            \/ size = 0
            \/ /\ chain # <<>>
               /\ Len(chain) < Fuel
               /\ fat_entry_read(f, chain[Len(chain)]) >= EOC_MIN
               /\ Len(chain) * cluster_size * SectorSize >= size
    IN  Enough(ChainFrom(f, c, Fuel))

RECURSIVE ReadAll(_, _, _, _)
\* what repeated file_read calls on handle h deliver until one returns 0
ReadAll(f, d, h, fuel) ==
    LET Rest(r) == IF fuel = 0 \/ r.n = 0 THEN <<>>
                   ELSE r.data \o ReadAll(f, d, r.h, fuel - 1)
    IN  Rest(file_read_on(f, d, h))

\* the content of the file a write handle has just been opened on
ContentAt(f, d, wh) ==
    ReadAll(f, d, [Dir_Entry |-> 0, File_Size |-> wh.File_Size,
                   FAT_Entry |-> wh.BaseFatEntry, SectorOffset |-> 0],
            MaxFileSize + 1)

\* a caller's create, write, close on volume v
WithFile(v, name, data) ==
    LET Closed(w, c) == [fat |-> w.fat, disk |-> c.disk]
        Written(o, w) == Closed(w, file_close(w.disk, o.rh, w.wh))
        Opened(o) == Written(o, file_write(o.fat, o.disk, o.wh, data))
    IN  Opened(file_open(v.fat, v.disk, ReadHandler, WriteHandler,
                         root_dir_first_cluster, name, "CREATE"))

\* a caller's create_directory in the root of volume v
WithDir(v, name) ==
    LET Made(r) == [fat |-> r.fat, disk |-> r.disk]
    IN  Made(create_directory(v.fat, v.disk, root_dir_first_cluster, name))

VolEmpty == [fat |-> Formatted, disk |-> EmptyDisk]
\* one file created and closed without a write
VolZ == WithFile(VolEmpty, NameA, <<>>)
\* one file of two sectors
VolA == WithFile(VolEmpty, NameA, Payload(SectorSize + 1))
\* two files of one unit each
VolAB == WithFile(WithFile(VolEmpty, NameA, Payload(1)), NameB, Payload(1))
\* a directory and a file of one sector
VolDA == WithFile(WithDir(VolEmpty, NameD), NameA, Payload(SectorSize))
Volumes == {VolEmpty, VolZ, VolA, VolAB, VolDA}

Init ==
    /\ \E v \in Volumes : fat = v.fat /\ disk = v.disk
    /\ read_handler = ReadHandler
    /\ write_handler = WriteHandler
    /\ ext_handler = ReadHandler
    /\ current_dir_cluster_ = root_dir_first_cluster
    /\ mounted = Geometry
    /\ fat_cache = FatCache
    /\ lfn = LfnIdle
    /\ sd = [SDCard EXCEPT !.initialized = TRUE, !.card_type = CARD_TYPE_SDHC]
    /\ card = CardIn
    /\ last = Mounted(MaxOps)
    /\ sess = Idle

FileOpen(path, function) ==
    /\ last.left > 0
    /\ \E r \in {IF card.ok
                  THEN file_open(fat, disk, read_handler, write_handler,
                                 current_dir_cluster_, path, function)
                  \* the first get_physical_block fails
                  ELSE OpenResult("FILE_NOT_FOUND", fat, disk,
                                  read_handler, write_handler)} :
        /\ fat' = r.fat
        /\ disk' = r.disk
        /\ read_handler' = r.rh
        /\ write_handler' = r.wh
        /\ UNCHANGED <<ext_handler, current_dir_cluster_, card, mounted, fat_cache, lfn>>
        \* a block call that succeeds stores SD_OK, which a card object
        \* that has mounted the volume holds already
        /\ sd' = IF ~card.ok /\ OpenReads(path) THEN read_block(sd, R1_NONE, R1_NONE).sd ELSE sd
        /\ last' = [Obs(IF r.res \in {"FILE_FOUND", "FILE_CREATE_OK"}
                         THEN function ELSE "open", r.res, 0, <<>>)
                       EXCEPT !.reuse =
                           /\ card.ok
                           /\ function = "CREATE"
                           /\ ReuseCase(fat, disk, current_dir_cluster_, path),
                              !.failed = ~card.ok /\ OpenReads(path)]
        /\ sess' =
             IF function = "CREATE" /\ r.res = "FILE_CREATE_OK"
             THEN [Idle EXCEPT !.phase = "w", !.name = path, !.rt = TRUE]
             ELSE IF function = "READ" /\ r.res = "FILE_FOUND"
             THEN LET base == IF sess.phase = "c" /\ sess.name = path
                              THEN sess ELSE [Idle EXCEPT !.name = path]
                  IN  [base EXCEPT !.phase = "r", !.n = r.rh.File_Size,
                           !.covered = Covers(r.fat, r.rh.FAT_Entry, r.rh.File_Size)]
             ELSE IF function = "MODIFY" /\ r.res = "FILE_FOUND"
             THEN [Idle EXCEPT !.phase = "m", !.name = path, !.n = r.wh.File_Size,
                               !.got = ContentAt(r.fat, r.disk, r.wh)]
             ELSE Idle

\* file_write on a card that answers
FileWrite(data) ==
    /\ last.left > 0
    /\ card.ok
    /\ write_handler.File_Size + Len(data) <= MaxFileSize
    /\ \E w \in {file_write(fat, disk, write_handler, data)} :
        /\ fat' = w.fat
        /\ disk' = w.disk
        /\ write_handler' = w.wh
        /\ UNCHANGED <<read_handler, ext_handler, current_dir_cluster_, sd, card, mounted,
                   fat_cache, lfn>>
        /\ last' = Obs("write", Bool(w.complete), 0, <<>>)
        /\ sess' = IF sess.phase \in {"w", "m"}
                   THEN [sess EXCEPT !.wrote = @ \o data,
                                     !.full = @ \/ ~w.complete]
                   ELSE Idle

\* file_close on a card that answers
FileClose ==
    /\ last.left > 0
    /\ card.ok
    /\ \E c \in {file_close(disk, read_handler, write_handler)} :
        /\ disk' = c.disk
        /\ read_handler' = c.rh
        /\ write_handler' = c.wh
        /\ UNCHANGED <<fat, ext_handler, current_dir_cluster_, sd, card, mounted,
                   fat_cache, lfn>>
        /\ last' = Obs("close", "true", 0, <<>>)
        /\ sess' = IF sess.phase = "w" THEN [sess EXCEPT !.phase = "c"]
                   ELSE IF sess.phase = "m" THEN [sess EXCEPT !.phase = "mc"]
                   ELSE Idle

\* file_read(buffer, nullptr) for mode "int", file_read(buffer, &handler)
\* for mode "ext", on a card that answers
FileRead(mode) ==
    /\ last.left > 0
    /\ card.ok
    /\ \E r \in {file_read(fat, disk, read_handler, ext_handler, mode = "ext")} :
        /\ read_handler' = IF mode = "int" THEN r.h ELSE read_handler
        /\ ext_handler' = IF mode = "ext" THEN r.h ELSE ext_handler
        /\ UNCHANGED <<fat, disk, write_handler, current_dir_cluster_, sd, card, mounted,
                   fat_cache, lfn>>
        /\ last' = Obs("read", "true", r.n, <<>>)
        /\ sess' = IF /\ sess.phase = "r"
                      /\ sess.mode \in {"-", mode}
                      /\ (sess.mode = "-" /\ mode = "ext") => ext_handler = ReadHandler
                   THEN [sess EXCEPT !.mode = mode, !.got = @ \o r.data,
                                     !.eof = @ \/ r.n = 0]
                   ELSE Idle

\* the caller declares a new ReadHandler object
NewHandler ==
    /\ last.left > 0
    /\ ext_handler # ReadHandler
    /\ ext_handler' = ReadHandler
    /\ UNCHANGED <<fat, disk, read_handler, write_handler, current_dir_cluster_,
                   sd, card, mounted, fat_cache, lfn>>
    /\ last' = Obs("handler", "true", 0, <<>>)
    /\ sess' = IF sess.mode = "ext" THEN Idle ELSE sess

RenameFile(old_name, new_name) ==
    /\ last.left > 0
    /\ \E r \in {IF card.ok
                  THEN rename_file(fat, disk, read_handler, write_handler,
                                   current_dir_cluster_, old_name, new_name)
                  \* the name is refused or the file_open fails
                  ELSE [res |-> FALSE, disk |-> disk, wh |-> write_handler]} :
        /\ disk' = r.disk
        /\ write_handler' = r.wh
        /\ UNCHANGED <<fat, read_handler, ext_handler, current_dir_cluster_, card, mounted,
                   fat_cache, lfn>>
        /\ sd' = IF ~card.ok /\ (to_dos_8_3(Basename(new_name)).ok /\ OpenReads(old_name))
                 THEN read_block(sd, R1_NONE, R1_NONE).sd ELSE sd
        /\ last' = [Obs("rename", Bool(r.res), 0, <<>>)
                       EXCEPT !.failed = ~card.ok /\ (to_dos_8_3(Basename(new_name)).ok /\ OpenReads(old_name))]
        /\ sess' = Idle

CreateDirectory(dir_name) ==
    /\ last.left > 0
    /\ \E r \in {IF card.ok
                  THEN create_directory(fat, disk, current_dir_cluster_, dir_name)
                  ELSE [res |-> FALSE, fat |-> fat, disk |-> disk]},
          \* fat_cache holds the FAT sector that the search needs, or not
          cached \in IF card.ok THEN {FALSE} ELSE BOOLEAN,
          newc \in {fat_search_available_cluster(fat,
                        IF current_dir_cluster_ # 0 THEN current_dir_cluster_
                        ELSE root_dir_first_cluster)},
          \* create_directory gets as far as the search of a free cluster
          searches \in {/\ \A i \in 1..Len(dir_name) : dir_name[i] # 47
                        /\ to_dos_8_3(dir_name).ok} :
        /\ fat' = r.fat
        /\ disk' = r.disk
        /\ UNCHANGED <<read_handler, write_handler, ext_handler,
                       current_dir_cluster_, card, mounted, fat_cache, lfn>>
        \* a search that reads the FAT fails in get_physical_block; a search
        \* in the cache finds a cluster that fat_entry cannot store, or none
        /\ sd' = IF card.ok \/ ~searches THEN sd
                 ELSE IF ~cached THEN read_block(sd, R1_NONE, R1_NONE).sd
                 ELSE IF newc >= 2
                 THEN write_block(sd, R1_NONE, R1_NONE, FALSE, R1_NONE, R1_NONE).sd
                 ELSE sd
        /\ last' = [Obs("mkdir", Bool(r.res), 0, <<>>)
                       EXCEPT !.failed = /\ ~card.ok /\ searches
                                         /\ (cached => newc >= 2)]
        /\ sess' = Idle

ChangeDirectory(dir_name) ==
    \* the call gets as far as the read of a directory sector
    LET Reads ==
            /\ dir_name # <<>>
            /\ dir_name # <<47>>
            /\ Tokens(IF dir_name[1] = 47 THEN Tail(dir_name) ELSE dir_name,
                      1, <<>>, 47) # <<>>
    IN  /\ last.left > 0
        /\ \E r \in {IF card.ok \/ ~Reads
                      THEN change_directory(fat, disk, current_dir_cluster_, dir_name)
                      ELSE [res |-> FALSE, cwd |-> current_dir_cluster_]} :
            /\ current_dir_cluster_' = r.cwd
            /\ UNCHANGED <<fat, disk, read_handler, write_handler, ext_handler,
                           card, mounted, fat_cache, lfn>>
            /\ sd' = IF ~card.ok /\ Reads
                     THEN read_block(sd, R1_NONE, R1_NONE).sd ELSE sd
            /\ last' = [Obs("chdir", Bool(r.res), 0, <<>>)
                           EXCEPT !.failed = ~card.ok /\ Reads]
            /\ sess' = Idle

\* cleanup_deleted_files on a card that answers
CleanupDeletedFiles ==
    /\ last.left > 0
    /\ card.ok
    /\ disk' = cleanup_deleted_files(fat, disk)
    /\ UNCHANGED <<fat, read_handler, write_handler, ext_handler,
                   current_dir_cluster_, sd, card, mounted, fat_cache, lfn>>
    /\ last' = Obs("cleanup", "true", 0, <<>>)
    /\ sess' = Idle

ListDirectory ==
    /\ last.left > 0
    /\ UNCHANGED <<fat, disk, read_handler, write_handler, ext_handler,
                   current_dir_cluster_, card, mounted, fat_cache, lfn>>
    /\ sd' = IF card.ok THEN sd ELSE read_block(sd, R1_NONE, R1_NONE).sd
    \* the value returned is error_code, which nothing changes
    /\ last' = [Obs("list", "ERROR_IDLE", 0,
                    IF card.ok
                    THEN list_directory(fat, disk, current_dir_cluster_)
                    ELSE <<>>)
                   EXCEPT !.failed = ~card.ok]
    /\ sess' = Idle

Next ==
    \/ \E path \in OpenPaths, function \in Functions : FileOpen(path, function)
    \/ \E data \in Payloads : FileWrite(data)
    \/ FileClose
    \/ \E mode \in {"int", "ext"} : FileRead(mode)
    \/ NewHandler
    \/ \E pair \in RenamePairs : RenameFile(pair[1], pair[2])
    \/ \E dir_name \in DirNames : CreateDirectory(dir_name)
    \/ \E dir_name \in ChdirNames : ChangeDirectory(dir_name)
    \/ CleanupDeletedFiles
    \/ ListDirectory

Spec == Init /\ [][Next]_vars

----------------------------------------------------------------------------
(* The same caller on a volume written by another implementation: the root *)
(* directory is a chain of two clusters, its first slot is the              *)
(* end-of-directory marker, and entries that were in use before are still   *)
(* stored after it, "A" in the last slot of the first sector and "B", a     *)
(* file of one unit, in the first slot of the second cluster                *)

GapInit ==
    /\ fat = [Formatted EXCEPT ![root_dir_first_cluster].lo = 3,
                               ![3].lo = EOC_MAX, ![4].lo = EOC_MAX]
    /\ disk = SetSlot(SetSlot(SetSlot(EmptyDisk,
                                      [c |-> root_dir_first_cluster, s |-> 0,
                                       i |-> SectorSize],
                                      NewEntry(to_dos_8_3(NameA).out11, AT_ARCHIVE, 0)),
                              [c |-> 3, s |-> 0, i |-> 1],
                              [NewEntry(to_dos_8_3(NameB).out11, AT_ARCHIVE, 4)
                                  EXCEPT !.size = 1]),
                      [c |-> 4, s |-> 0, i |-> 1], DataUnit(66))
    /\ read_handler = ReadHandler
    /\ write_handler = WriteHandler
    /\ ext_handler = ReadHandler
    /\ current_dir_cluster_ = root_dir_first_cluster
    /\ mounted = Geometry
    /\ fat_cache = FatCache
    /\ lfn = LfnIdle
    /\ sd = [SDCard EXCEPT !.initialized = TRUE, !.card_type = CARD_TYPE_SDHC]
    /\ card = CardIn
    /\ last = Mounted(MaxOps)
    /\ sess = Idle

GapSpec == GapInit /\ [][Next]_vars

----------------------------------------------------------------------------
(* A caller that creates a file, writes it, closes it, opens it for READ   *)
(* and reads it to the end, as run_fat32_test and read_text_file do        *)

SessionInit ==
    /\ \E v \in Volumes : fat = v.fat /\ disk = v.disk
    /\ read_handler = ReadHandler
    /\ write_handler = WriteHandler
    /\ ext_handler = ReadHandler
    /\ current_dir_cluster_ = root_dir_first_cluster
    /\ mounted = Geometry
    /\ fat_cache = FatCache
    /\ lfn = LfnIdle
    /\ sd = [SDCard EXCEPT !.initialized = TRUE, !.card_type = CARD_TYPE_SDHC]
    /\ card = CardIn
    /\ last = Mounted(MaxSessionOps)
    /\ sess = Idle

SessionCreate(path) == sess.phase = "idle" /\ FileOpen(path, "CREATE")
SessionWrite(data) == sess.phase = "w" /\ FileWrite(data)
SessionClose == sess.phase = "w" /\ FileClose
SessionOpenRead == sess.phase = "c" /\ FileOpen(sess.name, "READ")
SessionRead(mode) == sess.phase = "r" /\ FileRead(mode)

SessionNext ==
    \/ \E path \in OpenPaths : SessionCreate(path)
    \/ \E data \in Payloads : SessionWrite(data)
    \/ SessionClose
    \/ SessionOpenRead
    \/ \E mode \in {"int", "ext"} : SessionRead(mode)

SessionSpec == SessionInit /\ [][SessionNext]_vars

----------------------------------------------------------------------------
(* A caller that deletes a file it still has open for writing, creates a   *)
(* directory and goes on writing                                           *)

StaleInit ==
    /\ fat = VolEmpty.fat /\ disk = VolEmpty.disk
    /\ read_handler = ReadHandler
    /\ write_handler = WriteHandler
    /\ ext_handler = ReadHandler
    /\ current_dir_cluster_ = root_dir_first_cluster
    /\ mounted = Geometry
    /\ fat_cache = FatCache
    /\ lfn = LfnIdle
    /\ sd = [SDCard EXCEPT !.initialized = TRUE, !.card_type = CARD_TYPE_SDHC]
    /\ card = CardIn
    /\ last = Mounted(MaxStaleOps)
    /\ sess = Idle

StaleNext ==
    \/ \E function \in {"CREATE", "DELETE"} : FileOpen(NameA, function)
    \/ \E data \in Payloads : FileWrite(data)
    \/ \E dir_name \in DirNames : CreateDirectory(dir_name)
    \/ ListDirectory

StaleSpec == StaleInit /\ [][StaleNext]_vars

----------------------------------------------------------------------------
(* A caller of the file system and of the storage manager whose card may   *)
(* stop answering: every command sent to it from then on gets no answer,   *)
(* so every block read and write fails                                     *)

\* the card is pulled out of its slot
CardRemoved ==
    /\ card.ok
    /\ card' = [card EXCEPT !.ok = FALSE]
    /\ UNCHANGED <<fat, disk, read_handler, write_handler, ext_handler,
                   current_dir_cluster_, sd, last, sess, mounted,
                   fat_cache, lfn>>

\* StorageManager::write_text_file(filename, buffer, length) on a mounted
\* volume: file_open CREATE, file_write, file_close
WriteTextFile(filename, data) ==
    /\ last.left > 0
    /\ \E o \in {IF card.ok
                  THEN file_open(fat, disk, read_handler, write_handler,
                                 current_dir_cluster_, filename, "CREATE")
                  ELSE OpenResult("FILE_NOT_FOUND", fat, disk,
                                  read_handler, write_handler)} :
        IF o.res \notin {"FILE_CREATE_OK", "FILE_FOUND"}
        THEN /\ fat' = o.fat
             /\ disk' = o.disk
             /\ read_handler' = o.rh
             /\ write_handler' = o.wh
             /\ last' = [Obs("write_text_file", "SD_FILE_NOT_FOUND", 0, <<>>)
                            EXCEPT !.failed = ~card.ok /\ OpenReads(filename)]
        ELSE \E w \in {file_write(o.fat, o.disk, o.wh, data)} :
             \E c \in {file_close(w.disk, o.rh, w.wh)} :
                /\ fat' = w.fat
                /\ disk' = c.disk
                /\ read_handler' = c.rh
                /\ write_handler' = c.wh
                /\ last' = Obs("write_text_file", "SD_OK", 0, <<>>)
    /\ sd' = IF ~card.ok /\ OpenReads(filename) THEN read_block(sd, R1_NONE, R1_NONE).sd ELSE sd
    /\ UNCHANGED <<ext_handler, current_dir_cluster_, card, mounted, fat_cache, lfn>>
    /\ sess' = Idle

FaultNext ==
    \/ \E path \in OpenPaths \cup DotPaths, function \in Functions :
            FileOpen(path, function)
    \/ \E pair \in RenamePairs : RenameFile(pair[1], pair[2])
    \/ \E dir_name \in DirNames : CreateDirectory(dir_name)
    \/ \E dir_name \in ChdirNames : ChangeDirectory(dir_name)
    \/ ListDirectory
    \/ \E filename \in OpenPaths, data \in Payloads : WriteTextFile(filename, data)
    \/ CardRemoved

FaultSpec == Init /\ [][FaultNext]_vars

----------------------------------------------------------------------------
(* A caller of the block driver: it constructs the SDCard object, calls    *)
(* init and the block calls in any order, and the card answers as it likes *)
(* (a card that has been pulled gives no answer at all)                    *)

CardInit ==
    /\ \E v \in {VolEmpty, VolA} : fat = v.fat /\ disk = v.disk
    /\ read_handler = ReadHandler
    /\ write_handler = WriteHandler
    /\ ext_handler = ReadHandler
    /\ current_dir_cluster_ = root_dir_first_cluster
    /\ mounted = Geometry
    /\ fat_cache = FatCache
    /\ lfn = LfnIdle
    /\ sd = SDCard
    /\ card = CardIn
    /\ last = [Mounted(MaxCardOps) EXCEPT !.op = "new"]
    /\ sess = Idle

\* the R1 bytes the card may answer to a command
Answers ==
    IF card.ok THEN {R1_READY, R1_IDLE_STATE, R1_ILLEGAL_COMMAND, R1_NONE}
    ELSE {R1_NONE}

\* the answers during one SDCard::init of a card that is in its slot (ok)
\* and of one that is not
InitAnswers(ok) ==
    [cmd0 : IF ok THEN {R1_IDLE_STATE, R1_ILLEGAL_COMMAND, R1_NONE} ELSE {R1_NONE},
     cmd8 : IF ok THEN {R1_IDLE_STATE, R1_ILLEGAL_COMMAND, R1_NONE} ELSE {R1_NONE},
     echo : IF ok THEN BOOLEAN ELSE {FALSE},
     ready_at : IF ok THEN 0..MaxAcmd41Attempts ELSE {MaxAcmd41Attempts},
     cmd58 : IF ok THEN {R1_READY, R1_NONE} ELSE {R1_NONE},
     ccs : IF ok THEN BOOLEAN ELSE {FALSE},
     cmd16 : IF ok THEN {R1_READY, R1_NONE} ELSE {R1_NONE}]

SdInit(a) ==
    /\ last.left > 0
    /\ a \in InitAnswers(card.ok)
    /\ \E r \in {SDCard_init(sd, a)} :
        /\ sd' = r.sd
        /\ last' = Obs("init", Bool(r.ok), 0, <<>>)
    /\ UNCHANGED <<fat, disk, read_handler, write_handler, ext_handler,
                   current_dir_cluster_, card, sess, mounted, fat_cache, lfn>>

ReadBlock(block_num) ==
    /\ last.left > 0
    /\ \E r1 \in Answers, token \in Answers \cup {DATA_TOKEN} :
       \E r \in {read_block(sd, r1, token)} :
        /\ sd' = r.sd
        /\ last' = Obs("read_block", Bool(r.ok), 0, <<>>)
    /\ UNCHANGED <<fat, disk, read_handler, write_handler, ext_handler,
                   current_dir_cluster_, card, sess, mounted, fat_cache, lfn>>

\* a block that the card accepted but did not confirm may have been stored
WriteBlock(block_num, buffer) ==
    /\ last.left > 0
    /\ \E r1 \in Answers, resp \in {DATA_ACCEPTED, R1_NONE},
          idle \in BOOLEAN, r1s \in Answers, r2 \in {0, 1}, stored \in BOOLEAN :
       \E r \in {write_block(sd, r1, resp, idle, r1s, r2)} :
        /\ card.ok \/ resp = R1_NONE
        /\ r.ok => stored
        /\ stored => /\ sd.initialized
                     /\ r1 = R1_READY
                     /\ resp = DATA_ACCEPTED
        /\ sd' = r.sd
        /\ disk' = IF stored THEN store_physical_block(disk, block_num, buffer)
                   ELSE disk
        /\ last' = Obs("write_block", Bool(r.ok), 0, <<>>)
    /\ UNCHANGED <<fat, read_handler, write_handler, ext_handler,
                   current_dir_cluster_, card, sess, mounted, fat_cache, lfn>>

\* read_data with partial_block_read_ as the constructor leaves it
ReadData(block, offset, count) ==
    /\ last.left > 0
    /\ \E r1 \in Answers, token \in Answers \cup {DATA_TOKEN} :
       LET read_end(t) ==
               IF t.in_block_
               THEN [t EXCEPT !.in_block_ = FALSE,
                              !.offset_ = (IF @ < SECTOR_SIZE + 2
                                           THEN SECTOR_SIZE + 2 ELSE @) + 1]
               ELSE t
           Finish(t) == IF ~t.partial_block_read_ \/ t.offset_ >= SECTOR_SIZE
                        THEN Ret(TRUE, read_end(t)) ELSE Ret(TRUE, t)
           Copy(t) == Finish([t EXCEPT !.offset_ =
                                 (IF @ < offset THEN offset ELSE @) + count])
           read_data ==
               IF count = 0 THEN Ret(TRUE, sd)
               ELSE IF ~sd.initialized THEN Ret(FALSE, sd)
               ELSE IF offset + count > SECTOR_SIZE THEN Ret(FALSE, sd)
               ELSE IF ~sd.in_block_ \/ block # sd.block_ \/ offset < sd.offset_
               THEN IF r1 # R1_READY \/ token # DATA_TOKEN
                    THEN Ret(FALSE, [sd EXCEPT !.block_ = block])
                    ELSE Copy([sd EXCEPT !.block_ = block, !.offset_ = 0,
                                         !.in_block_ = TRUE])
               ELSE Copy(sd)
       IN  /\ sd' = read_data.sd
           /\ last' = Obs("read_data", Bool(read_data.ok), 0, <<>>)
    /\ UNCHANGED <<fat, disk, read_handler, write_handler, ext_handler,
                   current_dir_cluster_, card, sess, mounted, fat_cache, lfn>>

ReadStart(block) ==
    /\ last.left > 0
    /\ \E r1 \in Answers :
       LET read_start ==
               IF ~sd.initialized THEN Ret(FALSE, sd)
               ELSE IF r1 # R1_READY THEN Ret(FALSE, sd)
               ELSE Ret(TRUE, [sd EXCEPT !.in_block_ = FALSE, !.offset_ = 0,
                                    !.block_ = block])
       IN  /\ sd' = read_start.sd
           /\ last' = Obs("read_start", Bool(read_start.ok), 0, <<>>)
    /\ UNCHANGED <<fat, disk, read_handler, write_handler, ext_handler,
                   current_dir_cluster_, card, sess, mounted, fat_cache, lfn>>

\* write_start(block, eraseCount); the answer to ACMD23 is ignored
WriteStart(block) ==
    /\ last.left > 0
    /\ \E r1 \in Answers :
       LET write_start ==
               IF ~sd.initialized THEN Ret(FALSE, sd)
               ELSE IF r1 # R1_READY THEN Ret(FALSE, sd)
               ELSE Ret(TRUE, sd)
       IN  /\ sd' = write_start.sd
           /\ card' = IF write_start.ok THEN [card EXCEPT !.wpos = block]
                      ELSE card
           /\ last' = Obs("write_start", Bool(write_start.ok), 0, <<>>)
    /\ UNCHANGED <<fat, disk, read_handler, write_handler, ext_handler,
                   current_dir_cluster_, sess, mounted, fat_cache, lfn>>

\* write_data(src): the card accepts a block only during a multiple-block
\* write, and stores it at the next block of that write
WriteData(src) ==
    /\ last.left > 0
    /\ \E resp \in {DATA_ACCEPTED, R1_NONE}, idle \in BOOLEAN :
       LET write_data ==
               IF resp % 32 # DATA_ACCEPTED THEN Ret(FALSE, sd)
               ELSE IF ~idle THEN Ret(FALSE, sd)
               ELSE Ret(TRUE, sd)
       IN  /\ resp = DATA_ACCEPTED => card.ok /\ card.wpos # 0
           /\ sd' = write_data.sd
           /\ disk' = IF resp = DATA_ACCEPTED
                      THEN store_physical_block(disk, card.wpos, src)
                      ELSE disk
           /\ card' = IF resp = DATA_ACCEPTED
                      THEN [card EXCEPT !.wpos = @ + 1]
                      ELSE card
           /\ last' = Obs("write_data", Bool(write_data.ok), 0, <<>>)
    /\ UNCHANGED <<fat, read_handler, write_handler, ext_handler,
                   current_dir_cluster_, sess, mounted, fat_cache, lfn>>

\* write_stop: the stop token ends the multiple-block write
WriteStop ==
    /\ last.left > 0
    /\ \E idle \in BOOLEAN, idle2 \in BOOLEAN :
       LET write_stop ==
               IF ~idle THEN Ret(FALSE, sd)
               ELSE IF ~idle2 THEN Ret(FALSE, sd)
               ELSE Ret(TRUE, sd)
       IN  /\ sd' = write_stop.sd
           /\ card' = IF idle THEN [card EXCEPT !.wpos = 0] ELSE card
           /\ last' = Obs("write_stop", Bool(write_stop.ok), 0, <<>>)
    /\ UNCHANGED <<fat, disk, read_handler, write_handler, ext_handler,
                   current_dir_cluster_, sess, mounted, fat_cache, lfn>>

\* read_register(cmd, buf)
ReadRegister ==
    /\ last.left > 0
    /\ \E r1 \in Answers, token \in Answers \cup {DATA_TOKEN} :
       LET read_register ==
               IF r1 > 1 THEN Ret(FALSE, sd)
               ELSE IF token # DATA_TOKEN THEN Ret(FALSE, sd)
               ELSE Ret(TRUE, sd)
       IN  /\ sd' = read_register.sd
           /\ last' = Obs("read_register", Bool(read_register.ok), 0, <<>>)
    /\ UNCHANGED <<fat, disk, read_handler, write_handler, ext_handler,
                   current_dir_cluster_, card, sess, mounted, fat_cache, lfn>>

\* erase(firstBlock, lastBlock); r32, r33 and r38 answer the three erase
\* commands; the blocks of a card that erases read as zeros afterwards
Erase(firstBlock, lastBlock) ==
    /\ last.left > 0
    /\ \E r32 \in Answers, r33 \in Answers, r38 \in Answers, idle \in BOOLEAN :
       LET erase ==
               IF r32 # 0 THEN Fail(sd, "SD_ERASE_ERROR")
               ELSE IF r33 # 0 THEN Fail(sd, "SD_ERASE_ERROR")
               ELSE IF r38 # 0 THEN Fail(sd, "SD_ERASE_ERROR")
               ELSE IF ~idle THEN Fail(sd, "SD_ERASE_ERROR")
               ELSE Ret(TRUE, sd)
       IN  /\ sd' = erase.sd
           /\ disk' = IF erase.ok
                      THEN [lba \in DOMAIN disk |->
                               IF firstBlock <= lba /\ lba <= lastBlock
                               THEN ZeroSector ELSE disk[lba]]
                      ELSE disk
           /\ last' = Obs("erase", Bool(erase.ok), 0, <<>>)
    /\ UNCHANGED <<fat, read_handler, write_handler, ext_handler,
                   current_dir_cluster_, card, sess, mounted, fat_cache, lfn>>

CardNext ==
    \/ \E a \in InitAnswers(TRUE) : SdInit(a)
    \/ \E block_num \in {data_base, data_base + 1} : ReadBlock(block_num)
    \/ \E block_num \in {data_base, data_base + 1},
          buffer \in {ZeroSector, Payload(SectorSize)} : WriteBlock(block_num, buffer)
    \/ \E block \in {data_base, data_base + 1},
          offset \in 0..SECTOR_SIZE, count \in 0..SECTOR_SIZE :
            ReadData(block, offset, count)
    \/ \E block \in {data_base, data_base + 1} : ReadStart(block)
    \/ \E block \in {data_base, data_base + 1} : WriteStart(block)
    \/ \E src \in {ZeroSector, Payload(SectorSize)} : WriteData(src)
    \/ WriteStop
    \/ ReadRegister
    \/ \E firstBlock \in {data_base}, lastBlock \in {data_base, data_base + 1} :
            Erase(firstBlock, lastBlock)
    \/ CardRemoved

CardSpec == CardInit /\ [][CardNext]_vars

----------------------------------------------------------------------------
(* A caller that formats a card and mounts it, as StorageManager does:     *)
(* SDCard::init, format_fat32 and FAT32::init in any order, on cards of    *)
(* several sizes                                                           *)

\* the constructor leaves root_dir_first_cluster and first_data_sector as
\* they are in memory.  The sizes are in blocks: about 1 MB (too small for
\* the root cluster), 2 MB, 12 MB, 32 GB and 128 GB
FormatInit ==
    /\ fat = VolEmpty.fat /\ disk = VolEmpty.disk
    /\ read_handler = ReadHandler
    /\ write_handler = WriteHandler
    /\ ext_handler = ReadHandler
    /\ current_dir_cluster_ = root_dir_first_cluster
    /\ \E root \in {0, 2}, first \in {0, 2080} :
          mounted = [initialized |-> FALSE, main_offset |-> 0,
                     sector_size |-> 512, cluster_size |-> 0,
                     sectors_per_fat |-> 0, fat_base |-> 0,
                     root_dir_first_cluster |-> root,
                     first_data_sector |-> first, data_base |-> 0,
                     last_cluster |-> 0]
    /\ fat_cache = FatCache
    /\ lfn = LfnIdle
    /\ sd = SDCard
    /\ \E n \in {2090, 4096, 24576, 67108864, 268435456} :
          card = [CardIn EXCEPT !.sectors = n]
    /\ last = [Mounted(MaxFormatOps) EXCEPT !.op = "new"]
    /\ sess = Idle

FormatFat32(volume_label, serial) ==
    /\ last.left > 0
    /\ \E r \in {format_fat32(sd, card, volume_label, serial)} :
        /\ sd' = r.sd
        /\ card' = r.card
        /\ last' = Obs("format_fat32", Bool(r.ok), 0, <<>>)
    /\ UNCHANGED <<fat, disk, read_handler, write_handler, ext_handler,
                   current_dir_cluster_, mounted, sess, fat_cache, lfn>>

\* a division by zero is undefined: the call either does not return, and
\* the caller makes no further call, or goes on with a quotient of
\* DivisionByZero
Fat32Init ==
    /\ last.left > 0
    /\ \E q \in DivisionByZero, fault \in BOOLEAN :
       \E r \in {FAT32_init(mounted, sd, card, q)} :
        /\ ~r.div0 => (~fault /\ \A other \in DivisionByZero : q <= other)
        /\ mounted' = IF fault THEN mounted ELSE r.mounted
        /\ sd' = r.sd
        /\ current_dir_cluster_' =
               IF r.ok /\ ~fault THEN r.mounted.root_dir_first_cluster
               ELSE current_dir_cluster_
        /\ last' = IF fault
                   THEN [Obs("fat32_init", "fault", 0, <<>>) EXCEPT !.left = 0]
                   ELSE Obs("fat32_init", Bool(r.ok), 0, <<>>)
    /\ UNCHANGED <<fat, disk, read_handler, write_handler, ext_handler,
                   card, sess, fat_cache, lfn>>

FormatNext ==
    \/ \E a \in InitAnswers(TRUE) : SdInit(a)
    \/ \E volume_label \in {NameA}, serial \in {1000} :
          FormatFat32(volume_label, serial)
    \/ Fat32Init
    \/ CardRemoved

FormatSpec == FormatInit /\ [][FormatNext]_vars

----------------------------------------------------------------------------
(* A caller of fat_entry on a mounted volume whose card may fail any block *)
(* read or write, and may keep or lose the block of a write that fails     *)

\* some entries of the table hold non-zero top bits
CacheInit ==
    /\ \E v \in {VolEmpty, VolA}, top \in {0, 10} :
          /\ fat = [v.fat EXCEPT ![3].hi = top, ![FatEntries - 1].hi = top]
          /\ disk = v.disk
    /\ read_handler = ReadHandler
    /\ write_handler = WriteHandler
    /\ ext_handler = ReadHandler
    /\ current_dir_cluster_ = root_dir_first_cluster
    /\ mounted = Geometry
    /\ fat_cache = FatCache
    /\ lfn = LfnIdle
    /\ sd = [SDCard EXCEPT !.initialized = TRUE, !.card_type = CARD_TYPE_SDHC]
    /\ card = CardIn
    /\ last = Mounted(MaxCacheOps)
    /\ sess = Idle

\* last.n is the value returned, last.list the cluster number
FatEntry(cluster_num, fat_value, write_entry) ==
    /\ last.left > 0
    /\ \E rd \in BOOLEAN, wr \in BOOLEAN, stored \in BOOLEAN :
       \E r \in {fat_entry(fat, fat_cache, cluster_num, fat_value, write_entry,
                           rd, wr, stored)} :
        /\ card.ok \/ (~rd /\ ~wr /\ ~stored)
        /\ wr => stored
        /\ fat' = r.fat
        /\ fat_cache' = r.cache
        /\ sd' = IF r.io = "read fails"
                 THEN read_block(sd, R1_NONE, R1_NONE).sd
                 ELSE IF r.io = "write fails"
                 THEN write_block(sd, IF stored THEN R1_READY ELSE R1_NONE,
                                  DATA_ACCEPTED, FALSE, R1_READY, 0).sd
                 ELSE IF r.io = "ok" THEN [sd EXCEPT !.last_status = "SD_OK"]
                 ELSE sd
        /\ last' = Obs(IF write_entry THEN "fat_entry_write" ELSE "fat_entry_read",
                       "-", r.ret, <<cluster_num, fat_value>>)
    /\ UNCHANGED <<disk, read_handler, write_handler, ext_handler,
                   current_dir_cluster_, mounted, card, sess, lfn>>

\* flush_fat_cache: the cache is written through, nothing is left to write
FlushFatCache ==
    /\ last.left > 0
    /\ last' = Obs("flush_fat_cache", "-", 0, <<>>)
    /\ UNCHANGED <<fat, disk, read_handler, write_handler, ext_handler,
                   current_dir_cluster_, mounted, fat_cache, sd, card, sess, lfn>>

CacheNext ==
    \/ \E cluster_num \in {0, 1, 2, 3, FatEntries - 1},
          fat_value \in {CLUSTER_FREE, 3, EOC_MIN, 268435456 + 5},
          write_entry \in BOOLEAN :
          FatEntry(cluster_num, fat_value, write_entry)
    \/ FlushFatCache
    \/ CardRemoved

CacheSpec == CacheInit /\ [][CacheNext]_vars

----------------------------------------------------------------------------
(* The directory scans of list_directory and file_open, one entry at a      *)
(* step, on directory sectors that hold LFN fragments                       *)

\* the 13 characters of fragment j of a long name: "abcdefghijklm", ...
LfnText(j) == [i \in 1..13 |-> 97 + (j - 1) * 13 + (i - 1)]

\* the directory sectors scanned
LfnDirs ==
    LET A == to_dos_8_3(NameA).out11
        B == to_dos_8_3(NameB).out11
        D == to_dos_8_3(NameD).out11
    IN  << \* 1: the long name "ab" of one fragment and its short entry
           <<LfnEntry(65, <<97, 98>>), ShortEntry(A, AT_ARCHIVE)>>,
           \* 2: a long name of two fragments, its short entry, and a short
           \*    entry without a long name
           <<LfnEntry(66, <<110, 111>>), LfnEntry(1, LfnText(1)),
             ShortEntry(A, AT_ARCHIVE), ShortEntry(B, AT_ARCHIVE)>>,
           \* 3: a first fragment with ordinal 20 | 0x40 alone
           <<LfnEntry(84, SubSeq(LfnText(1), 1, 8)), ShortEntry(A, AT_ARCHIVE)>>,
           \* 4: a fragment with ordinal 2 that no first fragment precedes
           <<LfnEntry(2, LfnText(2)), ShortEntry(D, AT_DIRECTORY)>>,
           \* 5: ordinal 0xFF, an erased entry, the end marker, a stale entry
           <<LfnEntry(255, <<97>>), ShortEntry([A EXCEPT ![1] = FILE_ERASED], AT_ARCHIVE),
             ShortEntry(ZeroName, 0), ShortEntry(B, AT_ARCHIVE)>> >>

\* the names file_open is called with: "ab", "abcdefghijklmno", "a" and "d"
LfnNames == {<<97, 98>>, LfnText(1) \o <<110, 111>>, NameA, NameD}

LfnInit ==
    /\ fat = VolEmpty.fat /\ disk = VolEmpty.disk
    /\ read_handler = ReadHandler
    /\ write_handler = WriteHandler
    /\ ext_handler = ReadHandler
    /\ current_dir_cluster_ = root_dir_first_cluster
    /\ mounted = Geometry
    /\ fat_cache = FatCache
    /\ lfn = LfnIdle
    /\ sd = [SDCard EXCEPT !.initialized = TRUE, !.card_type = CARD_TYPE_SDHC]
    /\ card = CardIn
    /\ last = Mounted(MaxLfnCalls)
    /\ sess = Idle

\* list_directory or file_open(name, READ) is called and sets up its locals
LfnCall(caller, name, dir) ==
    /\ last.left > 0
    /\ lfn.done
    /\ lfn' = [LfnIdle EXCEPT !.caller = caller, !.name = name, !.dir = dir,
                              !.done = FALSE, !.lfn_index = lfn.lfn_index]
    /\ last' = Obs(caller, "-", 0, <<>>)
    /\ UNCHANGED <<fat, disk, read_handler, write_handler, ext_handler,
                   current_dir_cluster_, mounted, fat_cache, sd, card, sess>>

\* one pass of the entry loop of list_directory
ListStep ==
    /\ lfn.caller = "list_directory"
    /\ ~lfn.done
    /\ \E e \in {LfnDirs[lfn.dir][lfn.at + 1]} :
       \E r \in {fat_filename_parser_lfn(e, lfn.lfn_index, lfn.buf)} :
          LET short == r.type \in {"_File", "_Directory"}
              named == lfn.flag /\ lfn.saved # <<>>
              Clip(str, max) == SubSeq(str, 1, IF Len(str) < max THEN Len(str) ELSE max)
          IN  lfn' = IF e[1] = FILE_CLEAR
                     THEN [lfn EXCEPT !.at = @ + 1, !.done = TRUE, !.type = "-", !.top = 0]
                     ELSE [lfn EXCEPT
                              !.at = @ + 1,
                              !.done = lfn.at + 1 = Len(LfnDirs[lfn.dir]),
                              !.lfn_index = r.lfn_index,
                              !.buf = r.out,
                              !.type = r.type,
                              !.top = r.top,
                              !.list = IF short
                                       THEN Append(@, [at |-> lfn.at + 1,
                                                       dosFileName |-> Clip(StrOf(r.out), 12),
                                                       hasLongName |-> named,
                                                       longFileName |-> IF named THEN lfn.saved
                                                                        ELSE <<>>])
                                       ELSE @,
                              !.flag = IF short THEN @ /\ ~named
                                       ELSE @ \/ r.type = "_LongFileNameOK",
                              !.saved = IF short /\ named THEN <<>>
                                        ELSE IF r.type = "_LongFileNameOK"
                                        THEN Clip(StrOf(r.out), MAX_LFN_CHARACTERS - 1)
                                        ELSE @]
    /\ UNCHANGED <<fat, disk, read_handler, write_handler, ext_handler,
                   current_dir_cluster_, mounted, fat_cache, sd, card, last, sess>>

\* one pass of the entry loop of file_open for the last path component with
\* READ.  parsed_name is a new array in every pass: it holds what the pass
\* before left in its place, or anything else
OpenStep ==
    /\ lfn.caller = "file_open"
    /\ ~lfn.done
    /\ \E e \in {LfnDirs[lfn.dir][lfn.at + 1]}, parsed_name \in {lfn.buf, NoChars} :
       \E r \in {fat_filename_parser_lfn(e, lfn.lfn_index, parsed_name)} :
          LET short == r.type \in {"_File", "_Directory"}
              Clip(str, max) == SubSeq(str, 1, IF Len(str) < max THEN Len(str) ELSE max)
              Base == Until(SubSeq(e, 1, 8), 32)
              Ext == Until(SubSeq(e, 9, 11), 32)
              comp_name == IF lfn.flag /\ lfn.saved # <<>> THEN lfn.saved
                           ELSE IF r.type = "_Directory" \/ e[9] = 32 THEN Base
                           ELSE Base \o <<46>> \o Ext
              match == short /\ iequals(comp_name, lfn.name)
              last_one == lfn.at + 1 = Len(LfnDirs[lfn.dir])
          IN  lfn' = IF e[1] = FILE_CLEAR
                     THEN [lfn EXCEPT !.at = @ + 1, !.done = TRUE, !.type = "-", !.top = 0]
                     ELSE IF e[1] = FILE_ERASED
                     THEN [lfn EXCEPT !.at = @ + 1, !.done = last_one, !.type = "-", !.top = 0]
                     ELSE [lfn EXCEPT
                              !.at = @ + 1,
                              !.done = last_one \/ match,
                              !.lfn_index = r.lfn_index,
                              !.buf = r.out,
                              !.type = r.type,
                              !.top = r.top,
                              !.found = IF match /\ r.type = "_File" THEN lfn.at + 1 ELSE @,
                              !.flag = IF short THEN FALSE
                                       ELSE @ \/ r.type = "_LongFileNameOK",
                              !.saved = IF short THEN <<>>
                                        ELSE IF r.type = "_LongFileNameOK"
                                        THEN Clip(StrOf(r.out), MAX_LFN_CHARACTERS - 1)
                                        ELSE @]
    /\ UNCHANGED <<fat, disk, read_handler, write_handler, ext_handler,
                   current_dir_cluster_, mounted, fat_cache, sd, card, last, sess>>

LfnNext ==
    \/ \E dir \in 1..5 : LfnCall("list_directory", <<>>, dir)
    \/ \E name \in LfnNames, dir \in 1..5 : LfnCall("file_open", name, dir)
    \/ ListStep
    \/ OpenStep

LfnSpec == LfnInit /\ [][LfnNext]_vars

----------------------------------------------------------------------------
(* Claims *)

\* the directory entry file_open finds for a plain name in directory dc
\* (ZeroUnit when there is none)
EntryOf(f, d, dc, name) ==
    LET Pick(slots, k) == IF k = 0 THEN ZeroUnit ELSE SlotAt(d, slots[k])
        Scan(slots) ==
            Pick(slots, FirstWhere([z \in 1..Len(slots) |-> NameMatch(d, slots[z], name)]))
    IN  Scan(DirSlots(f, dc))

CeilDiv(a, b) == (a + b - 1) \div b

\* C1: round trip.  When a file has been created, written (every write
\* complete), closed, opened for READ and read until file_read returned 0,
\* the units delivered are exactly the units written, in order.
C1_RoundTrip ==
    (sess.phase = "r" /\ sess.rt /\ sess.eof /\ ~sess.full)
        => sess.got = sess.wrote

\* C2: reading to EOF.  For a file of n units opened for READ whose chain
\* holds its n units, every file_read returns min(SECTOR_SIZE, remaining)
\* units, so the counts sum to n and every later call returns 0; with the
\* internal handle and with a caller's ReadHandler.
C2_ReadToEof ==
    [][(last'.op = "read" /\ sess.phase = "r" /\ sess'.phase = "r" /\ sess.covered)
          => /\ last'.n = Min(SECTOR_SIZE, sess.n - Len(sess.got))
             /\ Len(sess'.got) = Len(sess.got) + last'.n]_vars

\* a file longer than a sector has been read to its end through a caller's
\* handler, and the call after the last unit returned 0
C2_Witness ==
    /\ sess.phase = "r" /\ sess.covered /\ sess.mode = "ext"
    /\ sess.n > SECTOR_SIZE /\ Len(sess.got) = sess.n
    /\ sess.eof /\ last.op = "read" /\ last.n = 0

\* C10: a file created, written with N > 0 units (every write complete) and
\* closed has a chain of exactly ceil(N / cluster units) clusters from the
\* first cluster of its directory entry, ending in an end-of-chain marker.
C10_ClusterCount ==
    (sess.phase = "c" /\ ~sess.full /\ Len(sess.wrote) > 0)
        => LET e == EntryOf(fat, disk, current_dir_cluster_, sess.name)
               chain == ChainFrom(fat, FirstCluster(e), Fuel)
           IN  /\ Len(chain) = CeilDiv(Len(sess.wrote), cluster_size * SectorSize)
               /\ fat_entry_read(fat, chain[Len(chain)]) >= EOC_MIN


\* the slot file_open finds for a plain name in directory dc; the name is
\* known to be there
SlotOf(f, d, dc, name) ==
    LET slots == DirSlots(f, dc)
        Hit(q) == NameMatch(d, q, name)
    IN  slots[FirstWhere([z \in 1..Len(slots) |-> Hit(slots[z])])]

SeqToSet(q) == {q[i] : i \in 1..Len(q)}

----------------------------------------------------------------------------
(* The directory tree, as a file system checker sees it *)

\* a slot holding a file or directory entry that a directory scan reports
LiveSlot(d, p) ==
    /\ BeforeClear(d, p)
    /\ fat_filename_parser(SlotAt(d, p)) \in {"_File", "_Directory"}

RECURSIVE DirClusters(_, _, _)
\* first clusters of the directories reachable from the root in n levels
DirClusters(f, d, n) ==
    IF n = 0 THEN {root_dir_first_cluster}
    ELSE LET up == DirClusters(f, d, n - 1)
         IN  up \cup
             {FirstCluster(SlotAt(d, p)) :
                 p \in {q \in UNION {SeqToSet(DirSlots(f, dc)) : dc \in up} :
                          /\ LiveSlot(d, q)
                          /\ HasAttr(SlotAt(d, q), AT_DIRECTORY)
                          /\ SlotAt(d, q).name[1] # 46
                          /\ ValidCluster(FirstCluster(SlotAt(d, q)))}}

MaxDepth == 2

\* the live entries of every directory, "." and ".." left out
LiveEntries(f, d) ==
    {p \in UNION {SeqToSet(DirSlots(f, dc)) : dc \in DirClusters(f, d, MaxDepth)} :
        LiveSlot(d, p) /\ SlotAt(d, p).name[1] # 46}

RECURSIVE EndsInEoc(_, _, _)
\* following the FAT from cluster c meets an end-of-chain marker within
\* steps clusters
EndsInEoc(f, c, steps) ==
    IF steps = 0 \/ c < 2 \/ c \notin DOMAIN f THEN FALSE
    ELSE IF f[c].lo >= EOC_MIN THEN TRUE
    ELSE EndsInEoc(f, f[c].lo, steps - 1)

\* C4: from the first cluster of every live directory entry the FAT leads to
\* an end-of-chain marker in at most last_cluster steps (so no cluster is
\* visited twice).
C4_ChainsWellFormed ==
    \A p \in LiveEntries(fat, disk) :
        FirstCluster(SlotAt(disk, p)) # 0
            => EndsInEoc(fat, FirstCluster(SlotAt(disk, p)), last_cluster)

\* the root directory as an owner: it has no slot
RootOwner == [c |-> 0, s |-> 0, i |-> 0]

\* the owners of cluster c: the live entries whose chain holds it, and the
\* root directory
Owners(f, d, c) ==
    {p \in LiveEntries(f, d) :
        c \in SeqToSet(ChainFrom(f, FirstCluster(SlotAt(d, p)), Fuel))}
    \cup (IF c \in SeqToSet(ChainFrom(f, root_dir_first_cluster, Fuel))
          THEN {RootOwner} ELSE {})

DataClusters == 2..(TotalClusters + 1)

\* C5: every cluster whose FAT entry is not FREE is in the chain of exactly
\* one live directory entry or of the root directory.
C5_ClusterOwnership ==
    \A c \in DataClusters :
        fat[c].lo # CLUSTER_FREE => Cardinality(Owners(fat, disk, c)) = 1

\* C6: count_free_clusters() plus the clusters in the chains of the live
\* files and directories is the number of data clusters of the volume.
C6_FreeSpaceAccounting ==
    count_free_clusters(fat)
      + Cardinality({c \in DataClusters : Owners(fat, disk, c) # {}})
        = TotalClusters


AllSlots == DataLbas \X (1..SectorSize)

Lookup(f, d, rh, wh, cwd, name) ==
    LET o == file_open(f, d, rh, wh, cwd, name, "READ")
    IN  [res |-> o.res,
         size |-> IF o.res = "FILE_FOUND" THEN o.rh.File_Size ELSE 0,
         data |-> IF o.res = "FILE_FOUND"
                  THEN ReadAll(o.fat, o.disk, o.rh, MaxFileSize + 1) ELSE <<>>]

\* C8: after rename_file(old, new) returned true, file_open(old, READ)
\* returns FILE_NOT_FOUND and file_open(new, READ) returns FILE_FOUND with
\* the size and content the file had under the old name.
C8_RenameLookup ==
    [][\A pair \in RenamePairs :
          (last'.op = "rename" /\ last'.res = "true"
              /\ RenameFile(pair[1], pair[2]))
          => LET before == Lookup(fat, disk, read_handler, write_handler,
                                  current_dir_cluster_, pair[1])
                 old == Lookup(fat', disk', read_handler', write_handler',
                               current_dir_cluster_', pair[1])
                 new == Lookup(fat', disk', read_handler', write_handler',
                               current_dir_cluster_', pair[2])
             IN  /\ old.res = "FILE_NOT_FOUND"
                 /\ new.res = "FILE_FOUND"
                 /\ new.size = before.size
                 /\ new.data = before.data]_vars

\* the slots list_directory has to report: those before the end-of-directory
\* marker that are not erased, not LFN fragments and not volume labels
RECURSIVE Listing(_, _, _)
Listing(d, slots, k) ==
    IF k > Len(slots) \/ SlotAt(d, slots[k]).name[1] = FILE_CLEAR THEN <<>>
    ELSE LET e == SlotAt(d, slots[k])
         IN  (IF e.name[1] # FILE_ERASED /\ e.attr # AT_LFN
                 /\ ~HasAttr(e, AT_VOLUME_ID)
              THEN <<[first |-> e.name[1],
                      type |-> IF HasAttr(e, AT_DIRECTORY)
                               THEN "_Directory" ELSE "_File",
                      size |-> e.size]>>
              ELSE <<>>) \o Listing(d, slots, k + 1)

\* C9: list_directory returns one entry for each live short-name entry of
\* the current directory, in on-disk order, with its type and its on-disk
\* size.
C9_Listing ==
    last.op = "list"
        => LET want == Listing(disk, DirSlots(fat, current_dir_cluster_), 1)
           IN  /\ Len(last.list) = Len(want)
               /\ \A k \in 1..Len(want) :
                     /\ last.list[k].dosFileName[1] = want[k].first
                     /\ last.list[k].type = want[k].type
                     /\ last.list[k].size = want[k].size

\* the listing of a root holding two files without content, nothing else
C9_Witness ==
    /\ last.op = "list" /\ Len(last.list) = 2
    /\ \A k \in 1..2 : last.list[k].type = "_File" /\ last.list[k].size = 0
    /\ last.list[1].dosFileName[1] # last.list[2].dosFileName[1]

----------------------------------------------------------------------------
(* Slot reuse *)

\* index in slots of the first slot whose first name byte is b, 0 if none
FirstWith(d, slots, b) ==
    FirstWhere([z \in 1..Len(slots) |-> SlotAt(d, slots[z]).name[1] = b])

\* C11: when the directory has an erased slot before its end-of-directory
\* marker, file_open(name, CREATE) of a name that is not there returns
\* FILE_CREATE_OK and writes the new entry into the first erased slot; every
\* other slot, the marker among them, and the FAT stay as they were.
C11_SlotReuse ==
    [][\A path \in OpenPaths :
          (ReuseCase(fat, disk, current_dir_cluster_, path)
              /\ FileOpen(path, "CREATE"))
          => LET slots == DirSlots(fat, StartDir(current_dir_cluster_))
                 p == slots[FirstWith(disk, slots, FILE_ERASED)]
             IN  /\ last'.res = "FILE_CREATE_OK"
                 /\ fat' = fat
                 /\ SlotAt(disk', p) = NewEntry(to_dos_8_3(path).out11, AT_ARCHIVE, 0)
                 /\ \A q \in AllSlots :
                       (q[1] # SlotLba(p) \/ q[2] # p.i)
                           => disk'[q[1]][q[2]] = disk[q[1]][q[2]]
                 /\ FirstWith(disk', slots, FILE_CLEAR)
                        = FirstWith(disk, slots, FILE_CLEAR)]_vars

\* a CREATE has just put a new name into an erased slot that lay before the
\* end-of-directory marker
C11_Witness ==
    /\ last.op = "CREATE" /\ last.res = "FILE_CREATE_OK"
    /\ last.reuse

----------------------------------------------------------------------------
(* Append on MODIFY *)

\* C12: after file_open(path, MODIFY) on a file of n units, file_write of m
\* units and file_close, the file has size n + m: its first n units are
\* the original content, the following m units the data written.
C12_ModifyAppends ==
    (sess.phase = "mc" /\ ~sess.full)
        => LET e == EntryOf(fat, disk, StartDir(current_dir_cluster_), sess.name)
           IN  /\ e.size = sess.n + Len(sess.wrote)
               /\ ReadAll(fat, disk,
                          [Dir_Entry |-> 0, File_Size |-> e.size,
                           FAT_Entry |-> FirstCluster(e), SectorOffset |-> 0],
                          MaxFileSize + 1) = sess.got \o sess.wrote

----------------------------------------------------------------------------
(* Handle lifecycle *)

\* C13: file_close clears the read handle and the write handle; from then
\* until the next successful file_open every file_read, on the internal
\* handle or on a fresh ReadHandler of the caller, returns 0 and every
\* file_write leaves the device as it was.
C13_ClosedHandles ==
    [][/\ last'.op = "close"
            => read_handler' = ReadHandler /\ write_handler' = WriteHandler
       /\ last.closed
            => /\ \A mode \in {"int", "ext"} :
                     (FileRead(mode) /\ (mode = "ext" => ext_handler = ReadHandler))
                         => last'.n = 0
               /\ \A data \in Payloads :
                     FileWrite(data) => fat' = fat /\ disk' = disk]_vars

----------------------------------------------------------------------------
\* C14: when a block read or write fails during file_open, list_directory,
\* change_directory, rename_file or create_directory, the call returns a
\* failure: never FILE_FOUND, FILE_CREATE_OK, ERROR_IDLE or true.
C14_BlockFailuresReported ==
    (/\ last.failed
     /\ last.op \in {"open", "list", "chdir", "rename", "mkdir"} \cup Functions)
        => last.res \notin {"FILE_FOUND", "FILE_CREATE_OK", "ERROR_IDLE", "true"}

----------------------------------------------------------------------------
\* C15: write_text_file returns SD_OK only if all the bytes given are
\* stored in the named file and its directory entry records that size.
C15_WriteFailuresVisible ==
    [][\A filename \in OpenPaths, data \in Payloads :
          (WriteTextFile(filename, data) /\ last'.res = "SD_OK")
             => LET e == EntryOf(fat', disk', StartDir(current_dir_cluster_),
                                 filename)
                IN  /\ e.size = Len(data)
                    /\ ReadAll(fat', disk',
                               [Dir_Entry |-> 0, File_Size |-> e.size,
                                FAT_Entry |-> FirstCluster(e), SectorOffset |-> 0],
                               MaxFileSize + 1) = data]_vars

----------------------------------------------------------------------------
\* C16: file_open returns FILE_NOT_FOUND for every path with a ".."
\* component, wherever the component stands and whatever the mode, and
\* changes nothing on the device.
C16_ParentRejected ==
    [][\A path \in DotPaths, function \in Functions :
          FileOpen(path, function)
             => /\ last'.res = "FILE_NOT_FOUND"
                /\ fat' = fat
                /\ disk' = disk]_vars

----------------------------------------------------------------------------
\* C17: when SDCard::init returns false, last_status names the stage that
\* failed: SD_NO_CARD when CMD0 never gets the idle answer 0x01, and
\* SD_INIT_TIMEOUT_ACMD41 when the ACMD41 loop uses up its attempts.
C17_InitFailureStatus ==
    [][\A a \in InitAnswers(TRUE) :
          (SdInit(a) /\ last'.res = "false")
             => /\ a.cmd0 # R1_IDLE_STATE => sd'.last_status = "SD_NO_CARD"
                /\ (/\ a.cmd0 = R1_IDLE_STATE
                    /\ a.cmd8 \in {R1_IDLE_STATE, R1_ILLEGAL_COMMAND}
                    /\ a.ready_at >= MaxAcmd41Attempts)
                      => sd'.last_status = "SD_INIT_TIMEOUT_ACMD41"]_vars

\* C18: right after an SDCard::init that returned false, is_initialized()
\* is false and read_block and write_block return false, also when an
\* earlier init had succeeded.
C18_FailedInitUninitialized ==
    [][/\ (last'.op = "init" /\ last'.res = "false") => ~sd'.initialized
       /\ (last.op = "init" /\ last.res = "false")
            => \A block_num \in {data_base, data_base + 1} :
                  /\ ReadBlock(block_num) => last'.res = "false"
                  /\ \A buffer \in {ZeroSector, Payload(SectorSize)} :
                        WriteBlock(block_num, buffer) => last'.res = "false"]_vars

\* C19: after read_block, write_block, read_data, read_start, write_start,
\* write_data, write_stop, read_register or erase has returned false,
\* get_last_status() differs from SD_OK.
C19_FailuresRecordStatus ==
    (/\ last.op \in {"read_block", "write_block", "read_data", "read_start",
                     "write_start", "write_data", "write_stop",
                     "read_register", "erase"}
     /\ last.res = "false")
        => sd.last_status # "SD_OK"

\* C20: when format_fat32 has succeeded and FAT32::init() is the next call on
\* the card, still in its slot, the mount succeeds, the root cluster is 2,
\* fat_base and data_base are the LBAs where format wrote the first FAT and
\* the zeroed root cluster (the fifth from last and the last of its writes),
\* FAT entry 2 reads as end-of-chain and the first entry list_directory
\* reads in the root cluster is the end marker, so that the list is empty
C20_FormatMountRoundTrip ==
    [][(/\ last.op = "format_fat32"
        /\ last.res = "true"
        /\ card.ok
        /\ Fat32Init)
          => /\ last'.res = "true"
             /\ mounted'.initialized
             /\ mounted'.root_dir_first_cluster = 2
             /\ mounted'.fat_base = card.blocks[Len(card.blocks) - 4].lo
             /\ mounted'.data_base = card.blocks[Len(card.blocks)].lo
             /\ ReadLE(card, mounted'.fat_base + (2 * 4) \div mounted'.sector_size,
                       (2 * 4) % mounted'.sector_size, 4) % 268435456 >= EOC_MIN
             /\ ReadLE(card, mounted'.data_base
                                + (mounted'.root_dir_first_cluster - 2)
                                  * mounted'.cluster_size, 0, 1) = FILE_CLEAR]_vars

\* C21: when file_open(name, CREATE) has created an entry and the next call is
\* a file_write that completes, the entry of name holds the first cluster of
\* the written chain and the number of units written, and no other entry of
\* the directory has its first cluster or its size changed.
C21_WriteUpdatesOpened ==
    [][\A data \in Payloads :
          (/\ last.op = "CREATE"
           /\ sess.phase = "w"
           /\ FileWrite(data)
           /\ last'.res = "true")
             => LET dir == DirSlots(fat, StartDir(current_dir_cluster_))
                    p == SlotOf(fat, disk, StartDir(current_dir_cluster_), sess.name)
                IN  /\ FirstCluster(SlotAt(disk', p)) = write_handler'.BaseFatEntry
                    /\ write_handler'.BaseFatEntry >= 2
                    /\ SlotAt(disk', p).size = Len(data)
                    /\ \A k \in 1..Len(dir) :
                          dir[k] # p =>
                             /\ FirstCluster(SlotAt(disk', dir[k]))
                                   = FirstCluster(SlotAt(disk, dir[k]))
                             /\ SlotAt(disk', dir[k]).size
                                   = SlotAt(disk, dir[k]).size]_vars

\* C22: on the write handle that file_open(name, CREATE) has just opened,
\* file_write(d1) followed by file_write(d2), both complete, leaves the file
\* with the size and the content that the single file_write(d1 \o d2) leaves.
C22_WritesCompose ==
    (last.op = "CREATE" /\ sess.phase = "w")
        => \A d1 \in Payloads, d2 \in Payloads :
              LET Same(two, one) ==
                      (two.complete /\ one.complete)
                          => /\ two.wh.File_Size = one.wh.File_Size
                             /\ ContentAt(two.fat, two.disk, two.wh)
                                   = ContentAt(one.fat, one.disk, one.wh)
                  Second(first) ==
                      first.complete
                          => Same(file_write(first.fat, first.disk, first.wh, d2),
                                  file_write(fat, disk, write_handler, d1 \o d2))
              IN  Second(file_write(fat, disk, write_handler, d1))

\* C23: FAT cache coherence.  Whenever fat_cache_valid is true, the cached
\* entries are the entries of sector fat_cache_sector on the card, and an
\* entry write that returned a value other than 0xFFFFFFFF is on the card
\* when fat_entry returns.
C23_CacheCoherent ==
    /\ fat_cache.valid
          => fat_cache.data =
                [i \in 0..(FatEntriesPerSector - 1) |->
                    fat[(fat_cache.sector - fat_base) * FatEntriesPerSector + i]]
    /\ (last.op = "fat_entry_write" /\ last.n # INVALID_CLUSTER)
          => fat[last.list[1]].lo = last.n

\* the second of two calls is a write that succeeds, with the sector cached
C23_Witness ==
    /\ last.op = "fat_entry_write"
    /\ last.n = EOC_MIN
    /\ fat_cache.valid
    /\ last.left = 0
    /\ fat # Formatted

\* C24: a fat_entry write to cluster c >= 2 that succeeds stores the low 28
\* bits of the value in entry c, keeps the top 4 bits of that entry and leaves
\* every other entry as it was, and a read of c that follows returns the low
\* 28 bits of the value; for c < 2 the call returns 0xFFFFFFFF and changes
\* neither the cache nor the card.
C24_EntryUpdate ==
    [][(last'.op = "fat_entry_write" /\ last'.left = last.left - 1)
          => LET c == last'.list[1]
                 v == last'.list[2]
             IN  IF c < 2
                 THEN /\ last'.n = INVALID_CLUSTER
                      /\ fat' = fat
                      /\ fat_cache' = fat_cache
                 ELSE last'.n # INVALID_CLUSTER
                         => /\ fat'[c] = [hi |-> fat[c].hi, lo |-> v % 268435456]
                            /\ \A o \in DOMAIN fat \ {c} : fat'[o] = fat[o]
                            /\ \A rd \in BOOLEAN :
                                  fat_entry(fat', fat_cache', c, 0, FALSE,
                                            rd, FALSE, FALSE).ret
                                     = v % 268435456]_vars

\* a value with top bits has been written to an entry with other top bits
C24_Witness ==
    /\ last.op = "fat_entry_write"
    /\ last.n = 5
    /\ fat[last.list[1]] = [hi |-> 10, lo |-> 5]


\* C25: fat_search_available_cluster(hint) returns the lowest FREE cluster
\* c >= max(hint, 2) of the usable range 2..TotalClusters + 1 if there is
\* one, otherwise the lowest FREE cluster of [2, hint), otherwise 0; so a
\* non-zero result is a usable cluster whose entry is 0, and 0 is returned
\* only when no usable cluster is FREE.
C25_AllocatorResult ==
    \A hint \in 0..(TotalClusters + 2) :
        LET Usable == 2..(TotalClusters + 1)
            Up == {c \in Usable :
                      c >= hint /\ fat_entry_read(fat, c) = CLUSTER_FREE}
            Low == {c \in Usable :
                       c < hint /\ fat_entry_read(fat, c) = CLUSTER_FREE}
            Lowest(S) == CHOOSE c \in S : \A b \in S : c <= b
        IN  fat_search_available_cluster(fat, hint)
               = IF Up # {} THEN Lowest(Up)
                 ELSE IF Low # {} THEN Lowest(Low)
                 ELSE 0


\* C26: after a mount that succeeded, with b the LBA of the BPB, fat_base is
\* b plus the reserved sectors, data_base is fat_base plus the sectors of the
\* FATs and of the root directory area, and last_cluster is the number of data
\* clusters plus one, as integers.
C26_MountedGeometry ==
    (last.op = "fat32_init" /\ last.res = "true")
       => LET b == ReadLE(card, 0, 454, 4)
              U(at, n) == ReadLE(card, b, at, n)
              root_dir_sectors == (U(17, 2) * 32 + (U(11, 2) - 1)) \div U(11, 2)
              FatSectors == U(16, 1) * U(36, 4)
          IN  /\ mounted.fat_base = b + U(14, 2)
              /\ mounted.data_base
                    = mounted.fat_base + FatSectors + root_dir_sectors
              /\ mounted.last_cluster
                    = ((U(32, 4) - (U(14, 2) + FatSectors + root_dir_sectors))
                          \div U(13, 1)) + 1


\* C27: a file that file_open(name, READ) finds in the current directory is
\* one that list_directory reports under that base name, so an entry stored
\* after the first
\* end-of-directory marker of the directory is never matched.
C27_ScanStopsAtEndMarker ==
    \A name \in OpenPaths :
        LET Listed(list) ==
                \E k \in 1..Len(list) :
                    /\ list[k].type = "_File"
                    /\ iequals(Until(list[k].dosFileName, 46), name)
            Found(o) == o.res = "FILE_FOUND"
        IN  Found(file_open(fat, disk, read_handler, write_handler,
                            current_dir_cluster_, name, "READ"))
               => Listed(list_directory(fat, disk, current_dir_cluster_))


\* C28: on the well-formed sequences of directories 1 and 2 (k fragments with
\* ordinals k | 0x40, ..., 1 and then their short entry) the parser returns
\* _LongFileNameNOK for the first k - 1 fragments and _LongFileNameOK for
\* the fragment with ordinal 1, after which the buffer of list_directory
\* holds character i of fragment j at offset (j - 1) * 13 + i; list_directory
\* reports the assembled name with the short entry that follows the
\* sequence and with no other entry, and file_open with that name finds
\* that short entry.
C28_LfnAssembly ==
    LET k == lfn.dir
        LongName == IF k = 1 THEN <<97, 98>> ELSE LfnText(1) \o <<110, 111>>
        Parsed == LfnDirs[lfn.dir][lfn.at]
    IN  (lfn.dir \in {1, 2} /\ lfn.at >= 1)
           => /\ (Parsed[12] = AT_LFN /\ lfn.at <= k)
                    => lfn.type = IF Parsed[1] % 64 = 1 THEN "_LongFileNameOK"
                                  ELSE "_LongFileNameNOK"
              /\ (lfn.caller = "list_directory" /\ lfn.at = k)
                    => StrOf(lfn.buf) = LongName
              /\ (lfn.caller = "list_directory" /\ lfn.done)
                    => \A n \in 1..Len(lfn.list) :
                          /\ lfn.list[n].hasLongName <=> lfn.list[n].at = k + 1
                          /\ lfn.list[n].at = k + 1
                                => lfn.list[n].longFileName = LongName
              /\ (lfn.caller = "file_open" /\ lfn.done /\ lfn.name = LongName)
                    => lfn.found = k + 1

\* C29: every offset of the name buffer that a call of the parser writes is
\* below MAX_LFN_CHARACTERS, whatever the ordinal byte of the entry, the
\* entries before it and the calls made before.
C29_WritesInsideBuffer == lfn.top < MAX_LFN_CHARACTERS

\* the parser has been called on the fragment with ordinal 20 | 0x40, and on
\* the fragment with ordinal 2 that no first fragment precedes
C29_Witness ==
    /\ lfn.dir \in {3, 4}
    /\ lfn.at = 1
    /\ LfnDirs[lfn.dir][1][12] = AT_LFN
    /\ lfn.type = "_Error"


\* C30: to_dos_8_3 refuses every name that holds one of the characters
\* " * / : < > ? \ | + , ; = [ ] anywhere or more than one dot; for a name it
\* accepts, with a base of at most 8 and an extension of at most 3
\* characters, out11 is the upper-cased base padded with spaces to 8 bytes
\* and the upper-cased extension padded to 3; and file_open(name, CREATE)
\* leaves the directory as it was for a name that has to be refused.
C30_NameValidation ==
    \A name \in {NameA, <<97, 46, 98>>, <<42>>, <<97, 46, 98, 46, 99>>,
                 NameLong \o <<42>>, <<97, 46, 98, 99, 100, 46, 101>>} :
        LET Disallowed == {34, 42, 47, 58, 60, 62, 63, 92, 124, 43, 44, 59, 61,
                           91, 93}
            Dots == {i \in 1..Len(name) : name[i] = 46}
            Refused == \/ \E i \in 1..Len(name) : name[i] \in Disallowed
                       \/ Cardinality(Dots) > 1
            Base == Until(name, 46)
            Ext == SubSeq(name, Len(Base) + 2, Len(name))
            Upper(s) == [i \in 1..Len(s) |-> toupper(s[i])]
            Converted(r) ==
                IF Refused THEN ~r.ok
                ELSE r.ok /\ r.out11 = PadSpaces(Upper(Base), 8)
                                          \o PadSpaces(Upper(Ext), 3)
            Created(o) == Refused => o.disk = disk
        IN  /\ Converted(to_dos_8_3(name))
            /\ Created(file_open(fat, disk, read_handler, write_handler,
                                 current_dir_cluster_, name, "CREATE"))


----------------------------------------------------------------------------
(* The same caller on a volume that holds a directory tree: the root holds *)
(* the directory "D" and the file "A" of one unit, and "D" holds a          *)
(* directory that is named "D" as well                                      *)

TreeVolume ==
    LET Nested(v) == create_directory(v.fat, v.disk,
                                      FirstCluster(SlotAt(v.disk,
                                          [c |-> root_dir_first_cluster, s |-> 0, i |-> 1])),
                                      NameD)
        WithA(r) ==
            [fat |-> [r.fat EXCEPT ![last_cluster].lo = EOC_MAX],
             disk |-> SetSlot(SetSlot(r.disk,
                                      [c |-> root_dir_first_cluster, s |-> 0, i |-> 2],
                                      [NewEntry(to_dos_8_3(NameA).out11, AT_ARCHIVE,
                                                last_cluster)
                                          EXCEPT !.size = 1]),
                              [c |-> last_cluster, s |-> 0, i |-> 1], DataUnit(65))]
    IN  WithA(Nested(WithDir(VolEmpty, NameD)))

\* the driver mounted on volume v, before the caller's first call
MountedOn(v) ==
    /\ fat = v.fat
    /\ disk = v.disk
    /\ read_handler = ReadHandler
    /\ write_handler = WriteHandler
    /\ ext_handler = ReadHandler
    /\ current_dir_cluster_ = root_dir_first_cluster
    /\ mounted = Geometry
    /\ fat_cache = FatCache
    /\ lfn = LfnIdle
    /\ sd = [SDCard EXCEPT !.initialized = TRUE, !.card_type = CARD_TYPE_SDHC]
    /\ card = CardIn
    /\ last = Mounted(MaxOps)
    /\ sess = Idle

TreeInit == MountedOn(TreeVolume)

TreeSpec == TreeInit /\ [][Next]_vars

----------------------------------------------------------------------------
(* The same caller on a volume with a damaged directory entry: the file    *)
(* "A" has a size of one unit and a first cluster that is no data cluster,  *)
(* next to the file "B" of one unit                                         *)

BadClusters == {0, 1, EOC_MIN}

DamagedVolume(first_cluster) ==
    LET Damage(v) ==
            [fat |-> v.fat,
             disk |-> SetSlot(v.disk, [c |-> root_dir_first_cluster, s |-> 0, i |-> 2],
                              [NewEntry(to_dos_8_3(NameA).out11, AT_ARCHIVE, first_cluster)
                                  EXCEPT !.size = 1])]
    IN  Damage(WithFile(VolEmpty, NameB, Payload(1)))

DamagedInit == \E first_cluster \in BadClusters : MountedOn(DamagedVolume(first_cluster))

DamagedSpec == DamagedInit /\ [][Next]_vars

----------------------------------------------------------------------------
(* A caller that only calls SDCard::init, on a card that is in its slot;   *)
(* the observation keeps the answers of the card and the commands sent      *)

HandshakeInit ==
    /\ fat = VolEmpty.fat
    /\ disk = VolEmpty.disk
    /\ read_handler = ReadHandler
    /\ write_handler = WriteHandler
    /\ ext_handler = ReadHandler
    /\ current_dir_cluster_ = root_dir_first_cluster
    /\ mounted = Geometry
    /\ fat_cache = FatCache
    /\ lfn = LfnIdle
    /\ sd = SDCard
    /\ card = CardIn
    /\ last = [Mounted(MaxCardOps) EXCEPT !.op = "new"]
    /\ sess = Idle

Handshake(a) ==
    /\ last.left > 0
    /\ \E r \in {SDCard_init(sd, a)} :
        /\ sd' = r.sd
        /\ last' = Obs("init", Bool(r.ok), 0, <<a, InitCommands(a)>>)
    /\ UNCHANGED <<fat, disk, read_handler, write_handler, ext_handler,
                   current_dir_cluster_, card, sess, mounted, fat_cache, lfn>>

HandshakeNext == \E a \in InitAnswers(TRUE) : Handshake(a)

HandshakeSpec == HandshakeInit /\ [][HandshakeNext]_vars

----------------------------------------------------------------------------
(* A caller of the partial reads of an initialized card: read_data,        *)
(* read_end and partial_block_read                                          *)

PartialInit ==
    /\ fat = VolEmpty.fat
    /\ disk = VolEmpty.disk
    /\ read_handler = ReadHandler
    /\ write_handler = WriteHandler
    /\ ext_handler = ReadHandler
    /\ current_dir_cluster_ = root_dir_first_cluster
    /\ mounted = Geometry
    /\ fat_cache = FatCache
    /\ lfn = LfnIdle
    /\ sd = [SDCard EXCEPT !.initialized = TRUE, !.card_type = CARD_TYPE_SDHC]
    /\ card = CardIn
    /\ last = [Mounted(MaxPartialOps) EXCEPT !.op = "new"]
    /\ sess = Idle

\* read_end: the rest of the open block and its two CRC bytes are clocked
\* out, chip-select is released
SDCard_read_end(t) ==
    IF t.in_block_
    THEN [t EXCEPT !.in_block_ = FALSE,
                   !.offset_ = (IF @ < SECTOR_SIZE + 2 THEN SECTOR_SIZE + 2 ELSE @) + 1]
    ELSE t

ReadEnd ==
    /\ last.left > 0
    /\ sd' = SDCard_read_end(sd)
    /\ last' = Obs("read_end", "-", 0, <<>>)
    /\ UNCHANGED <<fat, disk, read_handler, write_handler, ext_handler,
                   current_dir_cluster_, card, sess, mounted, fat_cache, lfn>>

PartialBlockRead(value) ==
    /\ last.left > 0
    /\ sd' = [SDCard_read_end(sd) EXCEPT !.partial_block_read_ = (value # 0)]
    /\ last' = Obs("partial_block_read", "-", 0, <<>>)
    /\ UNCHANGED <<fat, disk, read_handler, write_handler, ext_handler,
                   current_dir_cluster_, card, sess, mounted, fat_cache, lfn>>

PartialNext ==
    \/ \E block \in {data_base, data_base + 1},
          offset \in 0..SECTOR_SIZE, count \in 0..SECTOR_SIZE :
            ReadData(block, offset, count)
    \/ ReadEnd
    \/ \E value \in {0, 1} : PartialBlockRead(value)

PartialSpec == PartialInit /\ [][PartialNext]_vars

----------------------------------------------------------------------------
(* The cluster loops of list_directory and of change_directory, one pass   *)
(* of the loop per step, on every content of the FAT entries of the         *)
(* clusters WalkClusters and on directories whose clusters are either full  *)
(* of file entries or start with the end-of-directory marker.  lfn.dir is   *)
(* the local variable cluster, lfn.done tells that the call has returned,   *)
(* and lfn.at counts the passes made, modulo 2.  The entries that           *)
(* list_directory appends to file_list are left out.                        *)

WalkClusters == root_dir_first_cluster .. (root_dir_first_cluster + 2)

WalkInit ==
    /\ \E next \in [WalkClusters -> {CLUSTER_FREE, EOC_MIN} \cup WalkClusters],
          cleared \in SUBSET WalkClusters :
        /\ fat = fat_entry_write(fat_entry_write(fat_entry_write(Formatted,
                     root_dir_first_cluster, next[root_dir_first_cluster]),
                     root_dir_first_cluster + 1, next[root_dir_first_cluster + 1]),
                     root_dir_first_cluster + 2, next[root_dir_first_cluster + 2])
        /\ disk = [lba \in DOMAIN EmptyDisk |->
                     IF \E c \in WalkClusters \ cleared, sec \in 0..(cluster_size - 1) :
                           lba = ClusterLba(c, sec)
                     THEN [i \in 1..SectorSize |->
                              NewEntry(to_dos_8_3(NameB).out11, AT_ARCHIVE, 0)]
                     ELSE EmptyDisk[lba]]
    /\ read_handler = ReadHandler
    /\ write_handler = WriteHandler
    /\ ext_handler = ReadHandler
    /\ current_dir_cluster_ = root_dir_first_cluster
    /\ mounted = Geometry
    /\ fat_cache = FatCache
    /\ \E caller \in {"list_directory", "change_directory"} :
          lfn = [LfnIdle EXCEPT !.caller = caller, !.done = FALSE,
                                !.dir = root_dir_first_cluster]
    /\ sd = [SDCard EXCEPT !.initialized = TRUE, !.card_type = CARD_TYPE_SDHC]
    /\ card = CardIn
    /\ last = Mounted(0)
    /\ sess = Idle

\* one pass of the while loop of list_directory
ListCluster ==
    LET cluster == lfn.dir
        done == \E sec \in 0..(cluster_size - 1), i \in 1..SectorSize :
                    get_physical_block(disk, ClusterLba(cluster, sec))[i].name[1]
                        = FILE_CLEAR
        next == fat_entry_read(fat, cluster)
    IN  /\ lfn.caller = "list_directory"
        /\ ~lfn.done
        /\ lfn' = IF done \/ next >= EOC_MIN \/ next = 0
                  THEN [lfn EXCEPT !.done = TRUE]
                  ELSE [lfn EXCEPT !.dir = next, !.at = (@ + 1) % 2]
        /\ UNCHANGED <<fat, disk, read_handler, write_handler, ext_handler,
                       current_dir_cluster_, sd, card, last, sess, mounted, fat_cache>>

\* one pass of the while loop of change_directory for a name that no entry
\* of the directory has
ChdirCluster ==
    LET cluster == lfn.dir
        next == fat_entry_read(fat, cluster)
    IN  /\ lfn.caller = "change_directory"
        /\ ~lfn.done
        /\ lfn' = IF next >= EOC_MIN \/ next = 0
                  THEN [lfn EXCEPT !.done = TRUE]
                  ELSE [lfn EXCEPT !.dir = next, !.at = (@ + 1) % 2]
        /\ UNCHANGED <<fat, disk, read_handler, write_handler, ext_handler,
                       current_dir_cluster_, sd, card, last, sess, mounted, fat_cache>>

WalkNext == ListCluster \/ ChdirCluster

\* a call that has not returned goes on to its next pass
WalkSpec == WalkInit /\ [][WalkNext]_vars /\ WF_vars(WalkNext)

----------------------------------------------------------------------------
(* The caller that formats and mounts, on a card that comes with a sector  *)
(* 0 written elsewhere: an MBR whose only partition is not FAT32, a BPB     *)
(* without the jump opcode, one with 1024 bytes per sector and one with 0   *)
(* sectors per cluster                                                      *)

ForeignSectors ==
    LET Sig == [at |-> 510, len |-> 2, val |-> 43605]
        Jump == [at |-> 0, len |-> 3, val |-> 9459947]
        BootCode == [at |-> 0, len |-> 1, val |-> 250]
        Bpb(bytes_per_sector, sectors_per_cluster) ==
            {Sig,
             [at |-> 11, len |-> 2, val |-> bytes_per_sector],
             [at |-> 13, len |-> 1, val |-> sectors_per_cluster],
             [at |-> 14, len |-> 2, val |-> reserved_sectors],
             [at |-> 16, len |-> 1, val |-> num_fats],
             [at |-> 32, len |-> 4, val |-> 4096],
             [at |-> 36, len |-> 4, val |-> 4],
             [at |-> 44, len |-> 4, val |-> 2]}
    IN  {{Sig, BootCode, [at |-> 450, len |-> 1, val |-> 131]},
         Bpb(512, 8) \cup {BootCode},
         Bpb(1024, 8) \cup {Jump},
         Bpb(512, 0) \cup {Jump}}

ForeignInit ==
    /\ fat = VolEmpty.fat /\ disk = VolEmpty.disk
    /\ read_handler = ReadHandler
    /\ write_handler = WriteHandler
    /\ ext_handler = ReadHandler
    /\ current_dir_cluster_ = root_dir_first_cluster
    /\ mounted = [initialized |-> FALSE, main_offset |-> 0,
                  sector_size |-> 512, cluster_size |-> 0,
                  sectors_per_fat |-> 0, fat_base |-> 0,
                  root_dir_first_cluster |-> 0,
                  first_data_sector |-> 0, data_base |-> 0,
                  last_cluster |-> 0]
    /\ fat_cache = FatCache
    /\ lfn = LfnIdle
    /\ sd = SDCard
    /\ \E sector \in ForeignSectors :
          card = [CardIn EXCEPT !.sectors = 4096,
                                !.blocks = <<[lo |-> 0, hi |-> 0, data |-> sector]>>]
    /\ last = [Mounted(MaxFormatOps) EXCEPT !.op = "new"]
    /\ sess = Idle

ForeignSpec == ForeignInit /\ [][FormatNext]_vars

\* C31: cleanup_deleted_files leaves in every directory the live entries it
\* had, in their order, none lost and none twice, except the file entries
\* whose first cluster reads FREE in the FAT, which it erases.
C31_CleanupKeepsLive ==
    [][CleanupDeletedFiles
          => \A dc \in DirClusters(fat, disk, MaxDepth) :
                LET Orphan(e) == /\ ~HasAttr(e, AT_DIRECTORY)
                                 /\ e.attr # AT_LFN
                                 /\ ValidCluster(FirstCluster(e))
                                 /\ fat_entry_read(fat, FirstCluster(e)) = CLUSTER_FREE
                    Kept(e) == ~Orphan(e)
                    Held(d, p) == /\ BeforeClear(d, p)
                                  /\ SlotAt(d, p).name[1] # FILE_ERASED
                    Entries(d, slots) ==
                        [k \in 1..Len(slots) |-> SlotAt(d, slots[k])]
                    Live(d, slots) ==
                        Entries(d, SelectSeq(slots, LAMBDA p : Held(d, p)))
                IN  Live(disk', DirSlots(fat, dc))
                       = SelectSeq(Live(disk, DirSlots(fat, dc)), Kept)]_vars


\* C32: a path without a leading '/' is resolved from the current directory:
\* a change_directory by a relative name, made on a card that answers while
\* the current directory holds a subdirectory of that name, makes that
\* subdirectory the current directory.
C32_RelativeFromCurrent ==
    [][\A dir_name \in ChdirNames :
          LET target == WalkDirs(fat, disk, StartDir(current_dir_cluster_),
                                 Tokens(dir_name, 1, <<>>, 47), 1)
          IN  (/\ dir_name[1] # 47
               /\ card.ok
               /\ target # 0
               /\ ChangeDirectory(dir_name))
                 => current_dir_cluster_' = target]_vars


\* C33: no data sector is read through a cluster number below 2 or from
\* EOC_MIN on: a file_read on a handle whose current cluster is outside
\* that range returns 0 and leaves the handle as it is.
C33_NoReadThroughInvalidCluster ==
    [][\A mode \in {"int", "ext"} :
          LET copies == /\ mode = "ext"
                        /\ ext_handler.File_Size = 0
                        /\ ext_handler.FAT_Entry = 0
                        /\ read_handler.File_Size # 0
              h == IF mode = "int" \/ copies THEN read_handler ELSE ext_handler
          IN  (/\ ~ValidCluster(h.FAT_Entry)
               /\ FileRead(mode))
                 => /\ last'.n = 0
                    /\ (IF mode = "int" THEN read_handler' ELSE ext_handler') = h]_vars



\* C34: SDCard::init sends CMD0, then CMD8, then at most MaxAcmd41Attempts
\* pairs of CMD55 and ACMD41 whose HCS bit is set exactly when CMD8 echoed
\* the check pattern, then CMD58, then CMD16 for a card that is not SDHC; it
\* returns true only when every command was answered with success; and
\* card_type is SDHC exactly for a card that echoed CMD8 and reports CCS, V2
\* exactly for one that echoed CMD8 and reports no CCS, V1 exactly for one
\* that rejected CMD8 as illegal.
C34_Handshake ==
    last.op = "init" =>
        LET a == last.list[1]
            cmds == last.list[2]
            Stage(c) == IF c.cmd = "CMD0" THEN 0
                        ELSE IF c.cmd = "CMD8" THEN 1
                        ELSE IF c.cmd \in {"CMD55", "ACMD41"} THEN 2
                        ELSE IF c.cmd = "CMD58" THEN 3
                        ELSE 4
            echoed == a.cmd8 = R1_IDLE_STATE /\ a.echo
            Ordered ==
                /\ \A i \in 1..Len(cmds) - 1 : Stage(cmds[i]) <= Stage(cmds[i + 1])
                /\ \A i \in 1..Len(cmds) :
                      /\ cmds[i].cmd = "CMD55"
                            => i < Len(cmds) /\ cmds[i + 1].cmd = "ACMD41"
                      /\ cmds[i].cmd = "ACMD41"
                            => /\ i > 1 /\ cmds[i - 1].cmd = "CMD55"
                               /\ cmds[i].hcs = echoed
                      /\ cmds[i].cmd = "CMD16" => sd.card_type # CARD_TYPE_SDHC
                /\ Cardinality({i \in 1..Len(cmds) : cmds[i].cmd = "ACMD41"})
                      <= MaxAcmd41Attempts
                /\ Cardinality({i \in 1..Len(cmds) : cmds[i].cmd \in {"CMD8", "CMD58", "CMD16"}})
                      <= 3
            Succeeded ==
                /\ a.cmd0 = R1_IDLE_STATE
                /\ a.cmd8 \in {R1_IDLE_STATE, R1_ILLEGAL_COMMAND}
                /\ a.ready_at < MaxAcmd41Attempts
                /\ a.cmd58 = R1_READY
                /\ sd.card_type # CARD_TYPE_SDHC => a.cmd16 = R1_READY
            Typed ==
                /\ sd.card_type = CARD_TYPE_SDHC <=> (echoed /\ a.ccs)
                /\ sd.card_type = CARD_TYPE_SD_V2 <=> (echoed /\ ~a.ccs)
                /\ sd.card_type = CARD_TYPE_SD_V1 <=> a.cmd8 = R1_ILLEGAL_COMMAND
        IN  /\ Ordered
            /\ last.res = "true" => (sd.initialized /\ Succeeded /\ Typed)

\* C35: with partial-block reading, a read_data that sends CMD17 finds the
\* driver idle: a block left open by an earlier call has been closed before
\* the command for another block or a lower offset goes out; and a
\* read_data that returns false leaves in_block_ false.
C35_PartialReads ==
    [][\A block \in {data_base, data_base + 1},
          offset \in 0..SECTOR_SIZE, count \in 0..SECTOR_SIZE :
          ReadData(block, offset, count)
             => /\ (/\ count # 0
                    /\ offset + count <= SECTOR_SIZE
                    /\ (block # sd.block_ \/ offset < sd.offset_))
                      => ~sd.in_block_
                /\ last'.res = "false" => ~sd'.in_block_]_vars

\* C36: every call terminates on every content of the FAT and of the
\* directories: a list_directory or change_directory that has been called
\* returns, also when the cluster chain of the directory has a cycle.
C36_Terminates == <>(lfn.done)


\* C37: when file_open(name, CREATE) returns FILE_CREATE_OK for a name of
\* one component, file_open(name, READ) with the same name returns FILE_FOUND
\* with size 0, and a second file_open(name, CREATE) leaves the directory
\* with the live entries it had after the first.
C37_CreateThenFind ==
    \A name \in {NameA, NameB, NameLong} :
        LET Open(o, function) ==
                file_open(o.fat, o.disk, o.rh, o.wh, current_dir_cluster_, name, function)
            Found(r) == r.res = "FILE_FOUND" /\ r.rh.File_Size = 0
            Reused(o, again) ==
                Cardinality(LiveEntries(again.fat, again.disk))
                    = Cardinality(LiveEntries(o.fat, o.disk))
            Holds(o) == o.res = "FILE_CREATE_OK"
                           => /\ Found(Open(o, "READ"))
                              /\ Reused(o, Open(o, "CREATE"))
        IN  Holds(file_open(fat, disk, read_handler, write_handler,
                            current_dir_cluster_, name, "CREATE"))


\* C38: a file_open(name, DELETE) that succeeds makes exactly the deleted
\* name not found any more, and every other name is found or not found as
\* before, with the size and the content it had.
C38_DeleteOnlyTarget ==
    [][(last'.op = "DELETE" /\ last'.left = last.left - 1)
          => LET Before(n) == Lookup(fat, disk, read_handler, write_handler,
                                     current_dir_cluster_, n)
                 After(n) == Lookup(fat', disk', read_handler', write_handler',
                                    current_dir_cluster_', n)
                 Gone(n) == Before(n).res = "FILE_FOUND" /\ After(n).res = "FILE_NOT_FOUND"
             IN  /\ \E n \in OpenPaths : Gone(n)
                 /\ \A n \in OpenPaths : Gone(n) \/ After(n) = Before(n)
                 /\ Cardinality({n \in OpenPaths : Gone(n)}) = 1]_vars


\* C39: a file_open(CREATE or OVERWRITE), rename_file or create_directory
\* made on directories whose live entries have pairwise different 11-byte
\* names leaves them so.
C39_NamesUnique ==
    [][LET Live(d, p) == LiveSlot(d, p) /\ SlotAt(d, p).attr # AT_LFN
           Different(d, slots) ==
               \A i, j \in 1..Len(slots) :
                   (i < j /\ Live(d, slots[i]) /\ Live(d, slots[j]))
                      => SlotAt(d, slots[i]).name # SlotAt(d, slots[j]).name
           Unique(f, d) ==
               \A dc \in DirClusters(f, d, MaxDepth) : Different(d, DirSlots(f, dc))
       IN  (/\ last'.left = last.left - 1
            /\ last'.op \in {"CREATE", "OVERWRITE", "rename", "mkdir"}
            /\ Unique(fat, disk))
              => Unique(fat', disk')]_vars

\* C40: FAT32::init() on an initialized card returns false and leaves the
\* filesystem uninitialized when sector 0 is an MBR without a partition of
\* type 0x0B or 0x0C, or when the sector used as BPB has no jump opcode, a
\* bytes-per-sector other than 512 or 0 sectors per cluster; and it never
\* divides by zero.
C40_MountRejects ==
    [][(last'.op = "fat32_init" /\ last'.left # last.left)
          => LET U(lba, at, n) == ReadLE(card, lba, at, n)
                 Jumps(lba) == \/ U(lba, 0, 1) = 235 /\ U(lba, 2, 1) = 144
                               \/ U(lba, 0, 1) = 233
                 Fat32Parts == {i \in 0..3 : U(0, 446 + 16 * i + 4, 1) \in {11, 12}}
                 bpb_lba == IF Jumps(0) \/ Fat32Parts = {} THEN 0
                            ELSE U(0, 446 + 16 * (CHOOSE i \in Fat32Parts :
                                                    \A j \in Fat32Parts : i <= j) + 8, 4)
                 NotFat32 == \/ ~Jumps(0) /\ Fat32Parts = {}
                             \/ ~Jumps(bpb_lba)
                             \/ U(bpb_lba, 11, 2) # 512
                             \/ U(bpb_lba, 13, 1) = 0
             IN  /\ last'.res # "fault"
                 /\ (sd.initialized /\ card.ok /\ NotFat32)
                       => (last'.res = "false" /\ ~mounted'.initialized)]_vars


====
